---- MODULE Spec2Model ----
(***************************************************************************)
(* amplifier-bundle-plugin-compat: the install / remove state machine of   *)
(* installer.py over one target home (registry.py is the registry store),  *)
(* and the pure conversions of translator.py.                              *)
(*                                                                         *)
(* A mapping (a Python dict, a YAML or JSON mapping) is a sequence of      *)
(* entries in insertion order; a path is the tuple of its parts below the  *)
(* target home; a text document is the sequence of its lines.              *)
(***************************************************************************)
EXTENDS Integers, Sequences, FiniteSets, TLC

(***************************************************************************)
(* Bounds of the model.                                                    *)
(***************************************************************************)
\* mkdtemp directories one run may create (one per clone)
MaxTemp == 2
\* distinct values datetime.now() takes in one run
MaxStamp == 1
\* lines of the frontmatter block of a generated document
MaxFmLen == 3
\* lines of a generated document of arbitrary shape
MaxDocLen == 3

(***************************************************************************)
(* Generic helpers on sequences.                                           *)
(***************************************************************************)
Range(s) == {s[i] : i \in 1..Len(s)}

RECURSIVE SeqFilterOut(_, _)
\* s without its entries equal to x
SeqFilterOut(s, x) == IF s = <<>> THEN <<>> ELSE IF Head(s) = x THEN SeqFilterOut(Tail(s), x) ELSE <<Head(s)>> \o SeqFilterOut(Tail(s), x)

RECURSIVE RemoveFirst(_, _)
\* list.remove(x): s without the first entry equal to x
RemoveFirst(s, x) == IF s = <<>> THEN <<>> ELSE IF Head(s) = x THEN Tail(s) ELSE <<Head(s)>> \o RemoveFirst(Tail(s), x)

RECURSIVE Count(_, _)
Count(s, x) == IF s = <<>> THEN 0 ELSE (IF Head(s) = x THEN 1 ELSE 0) + Count(Tail(s), x)

\* the keys of a mapping held as a sequence of entries with a field name
Keys(m) == {m[i].name : i \in 1..Len(m)}

\* dict[key] of a mapping held as a sequence of entries (key must be present)
Lookup(m, key) == m[CHOOSE i \in 1..Len(m) : m[i].name = key]

\* dict[key] = entry: replaces in place when the key exists, appends otherwise
DictSet(m, entry) == IF entry.name \in Keys(m) THEN [i \in 1..Len(m) |-> IF m[i].name = entry.name THEN entry ELSE m[i]] ELSE Append(m, entry)

RECURSIVE DictDel(_, _)
\* del dict[key]
DictDel(m, key) == IF m = <<>> THEN <<>> ELSE IF Head(m).name = key THEN Tail(m) ELSE <<Head(m)>> \o DictDel(Tail(m), key)

RECURSIVE DictUpdate(_, _)
\* dict.update(other)
DictUpdate(m, other) == IF other = <<>> THEN m ELSE DictUpdate(DictSet(m, Head(other)), Tail(other))

(***************************************************************************)
(* translator.py.  A document is the sequence of its lines: the text is    *)
(* the lines joined by "\n", so a text ending in a newline has "" as its   *)
(* last line.  The lines are drawn from the alphabet Lines.                *)
(***************************************************************************)
Delim == "---"

\* the frontmatter lines of the model: what each is to the YAML loader
\*   "top"    a block-mapping entry at column 0,  key: value
\*   "open"   a key at column 0 with nothing after the colon
\*   "nested" a block-mapping entry indented by two spaces
\*   "scalar" a plain scalar, "item" a block-sequence entry at column 0
\*   "bad"    a line no YAML document can hold (a second ": " on the line)
LineInfo(l) == CASE l = "name: a" -> [cls |-> "top", name |-> "name", value |-> "a"]
                 [] l = "description: d" -> [cls |-> "top", name |-> "description", value |-> "d"]
                 [] l = "model: m" -> [cls |-> "top", name |-> "model", value |-> "m"]
                 [] l = "tools: t" -> [cls |-> "top", name |-> "tools", value |-> "t"]
                 [] l = "meta: {}" -> [cls |-> "top", name |-> "meta", value |-> "{}"]
                 [] l = "disable-model-invocation: true" -> [cls |-> "top", name |-> "disable-model-invocation", value |-> "true"]
                 [] l = "meta:" -> [cls |-> "open", name |-> "meta", value |-> "null"]
                 [] l = "  name: a" -> [cls |-> "nested", name |-> "name", value |-> "a"]
                 [] l = "  description: d" -> [cls |-> "nested", name |-> "description", value |-> "d"]
                 [] l = "- x" -> [cls |-> "item", name |-> "", value |-> "x"]
                 [] l = "x: y: z" -> [cls |-> "bad", name |-> "", value |-> ""]
                 [] l = Delim -> [cls |-> "marker", name |-> "", value |-> ""]
                 [] l = "" -> [cls |-> "blank", name |-> "", value |-> ""]
                 [] OTHER -> [cls |-> "scalar", name |-> "", value |-> l]

RECURSIVE BlankRun(_, _)
\* how many lines from index i on are blank and followed by a newline: what a
\* greedy \s* takes after the newline that ends line i-1
BlankRun(L, i) == IF i < Len(L) /\ L[i] = "" THEN 1 + BlankRun(L, i + 1) ELSE 0

\* the first closing delimiter the lazy (.*?) reaches when the frontmatter
\* starts at line s: the least j > s with line j the delimiter and a newline
\* after it; 0 when there is none
ClosingAt(L, s) == LET J == {j \in (s + 1)..(Len(L) - 1) : L[j] = Delim} IN IF J = {} THEN 0 ELSE CHOOSE j \in J : \A k \in J : j <= k

\* _split_frontmatter: re.match(r"^---\s*\n(.*?)\n---\s*\n(.*)$", content, DOTALL).
\* The \s* after the opening delimiter is greedy, so the match that is found
\* starts the frontmatter as late as a closing delimiter still allows; the
\* \s* after the closing delimiter takes the blank lines that follow it.
split_frontmatter(content) == LET n == Len(content)
                                  starts == IF n >= 2 /\ content[1] = Delim THEN {s \in 2..(BlankRun(content, 2) + 2) : ClosingAt(content, s) # 0} ELSE {}
                              IN IF starts = {} THEN [matched |-> FALSE, frontmatter |-> <<>>, body |-> content]
                                 ELSE LET s == CHOOSE x \in starts : \A y \in starts : y <= x
                                          j == ClosingAt(content, s)
                                      IN [matched |-> TRUE, frontmatter |-> SubSeq(content, s, j - 1), body |-> SubSeq(content, j + 1 + BlankRun(content, j + 1), n)]

RECURSIVE SkipBlank(_)
SkipBlank(L) == IF L = <<>> THEN <<>> ELSE IF L[1] = "" THEN SkipBlank(Tail(L)) ELSE <<L[1]>> \o SkipBlank(Tail(L))

\* the lines the loader sees tokens in: no blank lines, no leading "---" marker
YamlContent(fm) == LET c == SkipBlank(fm) IN IF c # <<>> /\ c[1] = Delim THEN Tail(c) ELSE c

RECURSIVE YamlMapping(_, _, _)
\* the block mapping at column 0 read from lines c; prev is what came before:
\*   "top" an entry, "open" a key awaiting its value, "nested" / "item" the
\*   lines of the value of an open key.  Gives the entries, or <<"error">>.
YamlMapping(c, prev, acc) == IF c = <<>> THEN [ok |-> TRUE, entries |-> acc]
                             ELSE LET t == LineInfo(c[1]) IN
                                  CASE t.cls \in {"top", "open"} -> YamlMapping(Tail(c), t.cls, DictSet(acc, [name |-> t.name, value |-> t.value]))
                                    [] t.cls = "nested" /\ prev \in {"open", "nested"} -> YamlMapping(Tail(c), "nested", DictSet(acc, [name |-> "meta", value |-> "{...}"]))
                                    [] t.cls = "item" /\ prev \in {"open", "item"} -> YamlMapping(Tail(c), "item", DictSet(acc, [name |-> "meta", value |-> "[...]"]))
                                    [] OTHER -> [ok |-> FALSE, entries |-> <<>>]

RECURSIVE NestedEntries(_, _)
NestedEntries(c, acc) == IF c = <<>> THEN acc ELSE NestedEntries(Tail(c), DictSet(acc, [name |-> LineInfo(c[1]).name, value |-> LineInfo(c[1]).value]))

Classes(c) == {LineInfo(c[i]).cls : i \in 1..Len(c)}

\* yaml.safe_load(frontmatter): kind is "none" (empty document), "error" (a
\* yaml.YAMLError), "scalar" (a str), "list" or "map" (entries in key order)
yaml_safe_load(fm) == LET c == YamlContent(fm)
                          first == LineInfo(c[1]).cls
                      IN CASE c = <<>> -> [kind |-> "none", entries |-> <<>>]
                           [] c # <<>> /\ "bad" \in Classes(c) -> [kind |-> "error", entries |-> <<>>]
                           [] c # <<>> /\ "bad" \notin Classes(c) /\ first = "scalar" -> IF Classes(c) \subseteq {"scalar", "item"} THEN [kind |-> "scalar", entries |-> <<>>] ELSE [kind |-> "error", entries |-> <<>>]
                           [] c # <<>> /\ "bad" \notin Classes(c) /\ first = "item" -> IF Classes(c) = {"item"} THEN [kind |-> "list", entries |-> <<>>] ELSE [kind |-> "error", entries |-> <<>>]
                           [] c # <<>> /\ "bad" \notin Classes(c) /\ first = "nested" -> IF Classes(c) = {"nested"} THEN [kind |-> "map", entries |-> NestedEntries(c, <<>>)] ELSE [kind |-> "error", entries |-> <<>>]
                           [] c # <<>> /\ "bad" \notin Classes(c) /\ first \in {"top", "open"} -> LET m == YamlMapping(c, "top", <<>>) IN IF m.ok THEN [kind |-> "map", entries |-> m.entries] ELSE [kind |-> "error", entries |-> <<>>]
                           [] OTHER -> [kind |-> "error", entries |-> <<>>]

RECURSIVE DumpEntries(_, _)
\* one line per entry of a mapping of strings, indented by indent
DumpEntries(entries, indent) == IF entries = <<>> THEN <<>> ELSE <<indent \o Head(entries).name \o ": " \o Head(entries).value>> \o DumpEntries(Tail(entries), indent)

\* yaml.dump(amplifier_data, default_flow_style=False, sort_keys=False): the
\* lines of the block mapping {"meta": meta, **rest}
yaml_dump(meta, rest) == (IF meta = <<>> THEN <<"meta: {}">> ELSE <<"meta:">> \o DumpEntries(meta, "  ")) \o DumpEntries(rest, "")

\* data.pop(key, None) for each key of keys, in turn
PopAll(entries, keys) == SelectSeq(entries, LAMBDA e : e.name \notin keys)

\* the entries moved into the meta block: name first, then description
MetaBlock(entries) == (IF "name" \in Keys(entries) THEN <<Lookup(entries, "name")>> ELSE <<>>) \o (IF "description" \in Keys(entries) THEN <<Lookup(entries, "description")>> ELSE <<>>)

\* the check "meta" in data on a mapping: the document is already translated
AlreadyAmplifier(data) == "meta" \in Keys(data.entries)

\* mutant of translate_agent: a mapping is regrouped whether or not it has "meta"
translate_agent_regroups(content) == LET sp == split_frontmatter(content)
                                         data == yaml_safe_load(sp.frontmatter)
                                     IN CASE ~sp.matched -> [raised |-> FALSE, text |-> content]
                                          [] sp.matched /\ data.kind \in {"error", "none"} -> [raised |-> FALSE, text |-> content]
                                          [] sp.matched /\ data.kind \in {"scalar", "list"} -> [raised |-> TRUE, text |-> <<>>]
                                          [] OTHER -> [raised |-> FALSE, text |-> <<Delim>> \o yaml_dump(MetaBlock(data.entries), PopAll(data.entries, {"name", "description", "model", "meta"})) \o <<Delim>> \o sp.body]

\* translate_agent(content): raised is TRUE when the call raises (a str or a
\* list has no pop(key, default)), otherwise text is the returned document
translate_agent(content) == LET sp == split_frontmatter(content)
                                data == yaml_safe_load(sp.frontmatter)
                            IN CASE ~sp.matched -> [raised |-> FALSE, text |-> content]
                                 [] sp.matched /\ data.kind \in {"error", "none"} -> [raised |-> FALSE, text |-> content]
                                 [] sp.matched /\ data.kind \in {"scalar", "list"} -> [raised |-> TRUE, text |-> <<>>]
                                 [] sp.matched /\ data.kind = "map" /\ AlreadyAmplifier(data) -> [raised |-> FALSE, text |-> content]
                                 [] OTHER -> [raised |-> FALSE, text |-> <<Delim>> \o yaml_dump(MetaBlock(data.entries), PopAll(data.entries, {"name", "description", "model"})) \o <<Delim>> \o sp.body]

(***************************************************************************)
(* parser.py: the plugin bundles install is given.  A source string names  *)
(* a directory tree (or nothing); parse_plugin reads the tree.             *)
(***************************************************************************)
Names == {"alpha", "beta"}

\* agent documents found in the bundles
AgentClaude == <<Delim, "name: a", "description: d", "model: m", Delim, "", "hello">>
AgentAmplifier == <<Delim, "meta:", "  name: a", Delim, "hello">>

NoMcp == [present |-> FALSE, servers |-> <<>>]

\* a directory without plugin.json
NoPlugin == [manifest |-> FALSE, name |-> "", version |-> "", skills |-> <<>>, agents |-> <<>>, commands |-> <<>>, hooks_config |-> FALSE, hooks_scripts |-> <<>>, mcp_config |-> NoMcp]

\* the directory trees on disk, by path: what parse_plugin finds in each
Tree(path) == CASE path = "/src/alpha1" -> [manifest |-> TRUE, name |-> "alpha", version |-> "1.0", skills |-> <<"s1">>, agents |-> <<[name |-> "a1.md", stem |-> "a1", isdir |-> FALSE, content |-> AgentClaude], [name |-> "a2.md", stem |-> "a2", isdir |-> FALSE, content |-> AgentAmplifier]>>, commands |-> <<"c1">>, hooks_config |-> TRUE, hooks_scripts |-> <<"start.sh">>, mcp_config |-> [present |-> TRUE, servers |-> <<[name |-> "srvA", value |-> "alpha1"]>>]]
                [] path = "/src/alpha2" -> [manifest |-> TRUE, name |-> "alpha", version |-> "2.0", skills |-> <<>>, agents |-> <<[name |-> "a1.md", stem |-> "a1", isdir |-> FALSE, content |-> AgentAmplifier]>>, commands |-> <<>>, hooks_config |-> TRUE, hooks_scripts |-> <<"stop.sh">>, mcp_config |-> [present |-> TRUE, servers |-> <<[name |-> "srvA", value |-> "alpha2"], [name |-> "srvC", value |-> "alpha2"]>>]]
                [] path = "/src/alphabad" -> [manifest |-> TRUE, name |-> "alpha", version |-> "3.0", skills |-> <<"s3">>, agents |-> <<[name |-> "x.md", stem |-> "x", isdir |-> TRUE, content |-> <<>>]>>, commands |-> <<>>, hooks_config |-> FALSE, hooks_scripts |-> <<>>, mcp_config |-> NoMcp]
                [] path = "/src/beta" -> [manifest |-> TRUE, name |-> "beta", version |-> "1.0", skills |-> <<"s2">>, agents |-> <<>>, commands |-> <<"c2">>, hooks_config |-> FALSE, hooks_scripts |-> <<"run.sh">>, mcp_config |-> NoMcp]
                [] OTHER -> NoPlugin

LocalPaths == {"/src/alpha1", "/src/alpha2", "/src/alphabad", "/src/beta", "/src/empty"}
RemoteSources == {"github.com/o/beta"}
Sources == LocalPaths \cup RemoteSources \cup {"nowhere"}

\* what a clone of a remote source checks out
Cloned(source) == "/src/beta"

\* ParsedPlugin.has_skills .. has_mcp
has_skills(plugin) == Len(plugin.skills) > 0
has_agents(plugin) == Len(plugin.agents) > 0
has_commands(plugin) == Len(plugin.commands) > 0
\* mutant of has_hooks: the hooks folder counts when it holds a script
has_hooks_by_folder(plugin) == plugin.hooks_config \/ plugin.hooks_scripts # <<>>
\* ParsedPlugin.has_hooks: hooks_config is not None
has_hooks(plugin) == plugin.hooks_config
has_mcp(plugin) == plugin.mcp_config.present

\* parse_plugin raises ValueError when _parse_manifest finds no plugin.json
ParseFails(path) == ~Tree(path).manifest

\* parse_plugin(plugin_path) of a directory that has a manifest
parse_plugin(path) == [root |-> path] @@ Tree(path)

(***************************************************************************)
(* The target home.  home is the content of <home>:                        *)
(*   registry  plugins.yaml: exists, and the "installed" mapping           *)
(*   settings  settings.yaml: exists, and the config.skills.dirs list      *)
(*   mcp       mcp.json: exists, valid (parses as a JSON object), the      *)
(*             mcpServers mapping, other (the other top-level keys)        *)
(*   plugins   plugins/<name>: the private install directory               *)
(*   skills    skills/<name>: absent, a symlink or a directory             *)
(*   agents    agents/<name>: the translated agent files                   *)
(***************************************************************************)
VARIABLES home, tempDirs, pc, op, local, result, pre, content, translated, calls

vars == <<home, tempDirs, pc, op, local, result, pre, content, translated, calls>>

install_path_of(name) == <<"plugins", name>>
SkillsDir(install_path) == install_path \o <<"skills">>
UserDir == <<"user", "skills">>

NoSub == [exists |-> FALSE, from |-> "", files |-> <<>>]
NoDir == [exists |-> FALSE, skills |-> NoSub, commands |-> NoSub, hooks |-> NoSub]
NoLink == [kind |-> "absent", target |-> <<>>]
NoAgents == [exists |-> FALSE, files |-> <<>>]

(***************************************************************************)
(* registry.py                                                             *)
(***************************************************************************)
RECURSIVE JoinPath(_)
\* str(path): the components of a path joined by "/"; "." for the empty path
JoinPath(p) == IF p = <<>> THEN "." ELSE IF Len(p) = 1 THEN p[1] ELSE p[1] \o "/" \o JoinPath(Tail(p))

\* Path(text): the components of the path a string names
PathOf(text) == CHOOSE p \in {<<>>} \cup {install_path_of(n) : n \in Names} : JoinPath(p) = text

\* mutant of to_dict: the components are not written
to_dict_without_components(info) == [source |-> info.source, version |-> info.version, installed_at |-> info.installed_at, install_path |-> JoinPath(info.install_path), components |-> <<>>]

\* PluginInfo.to_dict: the fields without the name, the install path as a string
to_dict(info) == [source |-> info.source, version |-> info.version, installed_at |-> info.installed_at, install_path |-> JoinPath(info.install_path), components |-> info.components]

\* PluginInfo.from_dict(name, data)
from_dict(name, data) == [name |-> name, source |-> data.source, version |-> data.version, installed_at |-> data.installed_at, install_path |-> PathOf(data.install_path), components |-> data.components]

\* the "installed" mapping of plugins.yaml as yaml.safe_load gives it
LoadInstalled(registry) == IF registry.exists THEN registry.installed ELSE <<>>

\* get_installed_plugins: name -> PluginInfo, empty when the file is absent
get_installed_plugins(registry) == [i \in 1..Len(LoadInstalled(registry)) |-> from_dict(LoadInstalled(registry)[i].name, LoadInstalled(registry)[i])]

\* mutant of register_plugin: the mapping is written anew with the one record
register_plugin_alone(registry, info) == [exists |-> TRUE, installed |-> <<[name |-> info.name] @@ to_dict(info)>>]

\* mutant of register_plugin: the record is appended without looking for the name
register_plugin_append(registry, info) == [exists |-> TRUE, installed |-> Append(LoadInstalled(registry), [name |-> info.name] @@ to_dict(info))]

\* register_plugin: data["installed"][info.name] = info.to_dict(), written back
register_plugin(registry, info) == [exists |-> TRUE, installed |-> DictSet(LoadInstalled(registry), [name |-> info.name] @@ to_dict(info))]

\* mutant of unregister_plugin: the file is written whether or not the name is found
unregister_plugin_writes(registry, name) == IF registry.exists /\ name \in Keys(registry.installed) THEN [registry |-> [registry EXCEPT !.installed = DictDel(registry.installed, name)], removed |-> TRUE] ELSE [registry |-> [registry EXCEPT !.exists = TRUE], removed |-> FALSE]

\* unregister_plugin: the registry after the call and the value returned
unregister_plugin(registry, name) == IF registry.exists /\ name \in Keys(registry.installed) THEN [registry |-> [registry EXCEPT !.installed = DictDel(registry.installed, name)], removed |-> TRUE] ELSE [registry |-> registry, removed |-> FALSE]

ListEntry(kind, names) == [name |-> kind, names |-> names, flag |-> FALSE]
FlagEntry(kind) == [name |-> kind, names |-> <<>>, flag |-> TRUE]

\* installed_components.get(kind, []) and .get(kind, False)
GetList(components, kind) == IF kind \in Keys(components) THEN Lookup(components, kind).names ELSE <<>>
GetFlag(components, kind) == IF kind \in Keys(components) THEN Lookup(components, kind).flag ELSE FALSE

\* create_plugin_info: a kind is recorded when its list is non-empty or its flag set
create_plugin_info(name, source, version, install_path, skills, agents, commands, hooks, mcpflag, now) == [name |-> name, source |-> source, version |-> version, installed_at |-> now, install_path |-> install_path, components |-> (IF skills # <<>> THEN <<ListEntry("skills", skills)>> ELSE <<>>) \o (IF agents # <<>> THEN <<ListEntry("agents", agents)>> ELSE <<>>) \o (IF commands # <<>> THEN <<ListEntry("commands", commands)>> ELSE <<>>) \o (IF hooks THEN <<FlagEntry("hooks")>> ELSE <<>>) \o (IF mcpflag THEN <<FlagEntry("mcp")>> ELSE <<>>)]

(***************************************************************************)
(* installer.py: the helpers, as functions of the home                     *)
(***************************************************************************)
\* mutant of install_skills: skills/<name> is made a copy, not a link
install_skills_copies(h, plugin, install_path) == [h EXCEPT !.plugins[plugin.name].skills = [exists |-> TRUE, from |-> plugin.root, files |-> plugin.skills], !.skills[plugin.name] = [kind |-> "dir", target |-> <<>>]]

\* _install_skills: replace the copy under the install directory, then
\* replace the link at skills/<name>
install_skills(h, plugin, install_path) == [h EXCEPT !.plugins[plugin.name].skills = [exists |-> TRUE, from |-> plugin.root, files |-> plugin.skills], !.skills[plugin.name] = [kind |-> "symlink", target |-> SkillsDir(install_path)]]

RECURSIVE WriteAgents(_, _, _)
\* the loop of _install_agents over plugin.agents: read_text raises on a
\* directory and translate_agent may raise; the files written so far stay
WriteAgents(todo, files, names) == IF todo = <<>> THEN [raised |-> FALSE, files |-> files, names |-> names]
                                   ELSE IF Head(todo).isdir \/ translate_agent(Head(todo).content).raised THEN [raised |-> TRUE, files |-> files, names |-> names]
                                   ELSE WriteAgents(Tail(todo), DictSet(files, [name |-> Head(todo).name, value |-> translate_agent(Head(todo).content).text]), Append(names, Head(todo).stem))

\* mutant of install_agents: the agents directory is emptied first
install_agents_clears(h, plugin) == LET w == WriteAgents(plugin.agents, <<>>, <<>>) IN [raised |-> w.raised, names |-> w.names, home |-> [h EXCEPT !.agents[plugin.name] = [exists |-> TRUE, files |-> w.files]]]

\* _install_agents: home is the home after the call (also when it raises)
install_agents(h, plugin) == LET w == WriteAgents(plugin.agents, h.agents[plugin.name].files, <<>>) IN [raised |-> w.raised, names |-> w.names, home |-> [h EXCEPT !.agents[plugin.name] = [exists |-> TRUE, files |-> w.files]]]

RECURSIVE CopyFiles(_, _, _)
CopyFiles(todo, files, from) == IF todo = <<>> THEN files ELSE CopyFiles(Tail(todo), DictSet(files, [name |-> Head(todo), value |-> from]), from)

\* _install_commands: copy2 of each command file into <install>/commands
install_commands(h, plugin) == [h EXCEPT !.plugins[plugin.name].commands = [exists |-> TRUE, from |-> "", files |-> CopyFiles(plugin.commands, @.files, plugin.root)]]

\* _install_hooks: rmtree then copytree of the hooks folder
install_hooks(h, plugin) == [h EXCEPT !.plugins[plugin.name].hooks = [exists |-> TRUE, from |-> plugin.root, files |-> plugin.hooks_scripts]]

\* _install_mcp_config: json.load raises on a malformed mcp.json
McpRaises(h, plugin) == plugin.mcp_config.present /\ h.mcp.exists /\ ~h.mcp.valid

\* mutant of install_mcp_config: mcpServers is replaced by the plugin's mapping
install_mcp_config_replaces(h, plugin) == IF ~plugin.mcp_config.present THEN h ELSE [h EXCEPT !.mcp = [exists |-> TRUE, valid |-> TRUE, servers |-> plugin.mcp_config.servers, other |-> h.mcp.exists /\ h.mcp.other]]

\* _install_mcp_config: existing["mcpServers"].update(plugin_servers), written back
install_mcp_config(h, plugin) == IF ~plugin.mcp_config.present THEN h ELSE [h EXCEPT !.mcp = [exists |-> TRUE, valid |-> TRUE, servers |-> DictUpdate(IF h.mcp.exists THEN h.mcp.servers ELSE <<>>, plugin.mcp_config.servers), other |-> h.mcp.exists /\ h.mcp.other]]

\* mutant of register_skills_directory: appended without the membership test
register_skills_directory_always(settings, skills_dir) == [exists |-> TRUE, dirs |-> Append(settings.dirs, skills_dir)]

\* _register_skills_directory: append unless present, and write settings.yaml
register_skills_directory(settings, skills_dir) == [exists |-> TRUE, dirs |-> IF skills_dir \in Range(settings.dirs) THEN settings.dirs ELSE Append(settings.dirs, skills_dir)]

\* mutant of unregister_skills_directory: only the head of the list is looked at
unregister_skills_directory_head(settings, skills_dir) == IF settings.exists /\ settings.dirs # <<>> /\ Head(settings.dirs) = skills_dir THEN [settings EXCEPT !.dirs = Tail(settings.dirs)] ELSE settings

\* _unregister_skills_directory: list.remove when present
unregister_skills_directory(settings, skills_dir) == IF settings.exists /\ skills_dir \in Range(settings.dirs) THEN [settings EXCEPT !.dirs = RemoveFirst(settings.dirs, skills_dir)] ELSE settings

(***************************************************************************)
(* The calls.  One call runs at a time (the tool is single-threaded); pc   *)
(* is the statement the running call is at, op its arguments, local its    *)
(* local variables, result what it returned.  pre is the home when the     *)
(* call started.                                                           *)
(***************************************************************************)
Stamps == 1..MaxStamp

NoInfo == [name |-> "", source |-> "", version |-> "", installed_at |-> 0, install_path |-> <<>>, components |-> <<>>]
NoLocal == [plugin_path |-> "", plugin |-> parse_plugin(""), installed_components |-> <<>>, warnings |-> <<>>, info |-> NoInfo]
NoResult == [success |-> FALSE, raised |-> FALSE, plugin_name |-> "", message |-> "", installed_components |-> <<>>, warnings |-> <<>>]
NoOp == [kind |-> "none", source |-> "", force |-> FALSE, name |-> "", update |-> FALSE]

CommandsWarning == "Commands installed but may need tool-slash-command for full support"
HooksWarning == "Hooks installed but require manual bundle configuration"

\* InstallResult(success=False, ...)
Failed(name, message) == [NoResult EXCEPT !.plugin_name = name, !.message = message]
\* an exception that leaves the call
Raised(name) == [NoResult EXCEPT !.raised = TRUE, !.plugin_name = name]

InitHome == [registry |-> [exists |-> FALSE, installed |-> <<>>], settings |-> [exists |-> FALSE, dirs |-> <<>>], mcp |-> [exists |-> FALSE, valid |-> TRUE, servers |-> <<>>, other |-> FALSE], plugins |-> [n \in Names |-> NoDir], skills |-> [n \in Names |-> NoLink], agents |-> [n \in Names |-> NoAgents]]

\* the homes a run starts from: a fresh one, one whose shared documents the
\* user and other tools have written, and one whose mcp.json is malformed
UserHome == [InitHome EXCEPT !.settings = [exists |-> TRUE, dirs |-> <<UserDir>>], !.mcp = [exists |-> TRUE, valid |-> TRUE, servers |-> <<[name |-> "srvA", value |-> "user"]>>, other |-> TRUE]]
BrokenMcpHome == [InitHome EXCEPT !.mcp = [exists |-> TRUE, valid |-> FALSE, servers |-> <<>>, other |-> FALSE]]
InitHomes == {InitHome, UserHome, BrokenMcpHome}

Idle == pc \in {"idle", "done"}

Begin(o, first) == /\ Idle
                   /\ pc' = first
                   /\ op' = o
                   /\ local' = NoLocal
                   /\ result' = NoResult
                   /\ pre' = home
                   /\ UNCHANGED <<home, tempDirs, content, translated, calls>>

Return(r) == /\ pc' = "done"
             /\ result' = r

\* install_plugin(source, amplifier_home, force) is called
InstallCall(source, force) == /\ source \in RemoteSources => tempDirs < MaxTemp
                              /\ Begin([NoOp EXCEPT !.kind = "install", !.source = source, !.force = force], "resolve")

\* _resolve_source: an existing local path
ResolveLocal == /\ pc = "resolve"
                /\ op.source \in LocalPaths
                /\ pc' = "parse"
                /\ local' = [local EXCEPT !.plugin_path = op.source]
                /\ UNCHANGED <<home, tempDirs, op, result, pre, content, translated, calls>>

\* _resolve_source -> _clone_repo: mkdtemp, then git clone succeeds
ResolveClone == /\ pc = "resolve"
                /\ op.source \in RemoteSources
                /\ tempDirs' = tempDirs + 1
                /\ pc' = "parse"
                /\ local' = [local EXCEPT !.plugin_path = Cloned(op.source)]
                /\ UNCHANGED <<home, op, result, pre, content, translated, calls>>

\* _clone_repo: mkdtemp, then git clone exits non-zero (CalledProcessError,
\* caught by install_plugin)
ResolveCloneFails == /\ pc = "resolve"
                     /\ op.source \in RemoteSources
                     /\ tempDirs' = tempDirs + 1
                     /\ Return(Failed("unknown", "Failed to resolve source"))
                     /\ UNCHANGED <<home, op, local, pre, content, translated, calls>>

\* _resolve_source raises ValueError (caught by install_plugin)
ResolveFails == /\ pc = "resolve"
                /\ op.source \notin LocalPaths \cup RemoteSources
                /\ Return(Failed("unknown", "Failed to resolve source"))
                /\ UNCHANGED <<home, tempDirs, op, local, pre, content, translated, calls>>

\* mutant of Parse: settings.yaml is created before the plugin is parsed
ParseTouchesSettings == /\ pc = "parse"
                        /\ home' = [home EXCEPT !.settings.exists = TRUE]
                        /\ IF ParseFails(local.plugin_path)
                             THEN Return(Failed("unknown", "Failed to parse plugin")) /\ UNCHANGED local
                             ELSE pc' = "check" /\ local' = [local EXCEPT !.plugin = parse_plugin(local.plugin_path)] /\ UNCHANGED result
                        /\ UNCHANGED <<tempDirs, op, pre, content, translated, calls>>

\* parse_plugin(plugin_path), its ValueError caught by install_plugin
Parse == /\ pc = "parse"
         /\ IF ParseFails(local.plugin_path)
              THEN Return(Failed("unknown", "Failed to parse plugin")) /\ UNCHANGED local
              ELSE pc' = "check" /\ local' = [local EXCEPT !.plugin = parse_plugin(local.plugin_path)] /\ UNCHANGED result
         /\ UNCHANGED <<home, tempDirs, op, pre, content, translated, calls>>

\* mutant of AlreadyInstalled: the force flag read the wrong way round
AlreadyInstalledInverted(plugin_name, installed, force) == plugin_name \in Keys(installed) /\ force

\* plugin_name in installed and not force
AlreadyInstalled(plugin_name, installed, force) == plugin_name \in Keys(installed) /\ ~force

\* the already-installed check of install_plugin
Check == /\ pc = "check"
         /\ IF AlreadyInstalled(local.plugin.name, get_installed_plugins(home.registry), op.force)
              THEN Return(Failed(local.plugin.name, "already installed"))
              ELSE pc' = "mkdir" /\ UNCHANGED result
         /\ UNCHANGED <<home, tempDirs, op, local, pre, content, translated, calls>>

\* mutant of Mkdir: the registry record is written when the directory is made
MkdirRegistersEarly == /\ pc = "mkdir"
                       /\ \E now \in Stamps : home' = [home EXCEPT !.plugins[local.plugin.name].exists = TRUE, !.registry = register_plugin(@, create_plugin_info(local.plugin.name, op.source, local.plugin.version, install_path_of(local.plugin.name), <<>>, <<>>, <<>>, FALSE, FALSE, now))]
                       /\ pc' = "skills"
                       /\ UNCHANGED <<tempDirs, op, local, result, pre, content, translated, calls>>

\* install_path.mkdir(parents=True, exist_ok=True)
Mkdir == /\ pc = "mkdir"
         /\ home' = [home EXCEPT !.plugins[local.plugin.name].exists = TRUE]
         /\ pc' = "skills"
         /\ UNCHANGED <<tempDirs, op, local, result, pre, content, translated, calls>>

\* if plugin.has_skills: _install_skills
Skills == /\ pc = "skills"
          /\ IF has_skills(local.plugin)
               THEN /\ home' = install_skills(home, local.plugin, install_path_of(local.plugin.name))
                    /\ local' = [local EXCEPT !.installed_components = DictSet(@, ListEntry("skills", local.plugin.skills))]
               ELSE UNCHANGED <<home, local>>
          /\ pc' = "agents"
          /\ UNCHANGED <<tempDirs, op, result, pre, content, translated, calls>>

\* if plugin.has_agents: _install_agents; an exception leaves install_plugin
Agents == /\ pc = "agents"
          /\ IF has_agents(local.plugin)
               THEN LET r == install_agents(home, local.plugin) IN
                    /\ home' = r.home
                    /\ IF r.raised
                         THEN Return(Raised(local.plugin.name)) /\ UNCHANGED local
                         ELSE pc' = "commands" /\ local' = [local EXCEPT !.installed_components = DictSet(@, ListEntry("agents", r.names))] /\ UNCHANGED result
               ELSE pc' = "commands" /\ UNCHANGED <<home, local, result>>
          /\ UNCHANGED <<tempDirs, op, pre, content, translated, calls>>

\* if plugin.has_commands: _install_commands, and the commands warning
Commands == /\ pc = "commands"
            /\ IF has_commands(local.plugin)
                 THEN /\ home' = install_commands(home, local.plugin)
                      /\ local' = [local EXCEPT !.installed_components = DictSet(@, ListEntry("commands", local.plugin.commands)), !.warnings = Append(@, CommandsWarning)]
                 ELSE UNCHANGED <<home, local>>
            /\ pc' = "hooks"
            /\ UNCHANGED <<tempDirs, op, result, pre, content, translated, calls>>

\* mutant of Hooks: the hooks are installed without the warning
HooksWithoutWarning == /\ pc = "hooks"
                       /\ IF has_hooks(local.plugin)
                            THEN /\ home' = install_hooks(home, local.plugin)
                                 /\ local' = [local EXCEPT !.installed_components = DictSet(@, FlagEntry("hooks"))]
                            ELSE UNCHANGED <<home, local>>
                       /\ pc' = "mcp"
                       /\ UNCHANGED <<tempDirs, op, result, pre, content, translated, calls>>

\* if plugin.has_hooks: _install_hooks, and the hooks warning
Hooks == /\ pc = "hooks"
         /\ IF has_hooks(local.plugin)
              THEN /\ home' = install_hooks(home, local.plugin)
                   /\ local' = [local EXCEPT !.installed_components = DictSet(@, FlagEntry("hooks")), !.warnings = Append(@, HooksWarning)]
              ELSE UNCHANGED <<home, local>>
         /\ pc' = "mcp"
         /\ UNCHANGED <<tempDirs, op, result, pre, content, translated, calls>>

\* if plugin.has_mcp: _install_mcp_config; an exception leaves install_plugin
Mcp == /\ pc = "mcp"
       /\ IF has_mcp(local.plugin)
            THEN IF McpRaises(home, local.plugin)
                   THEN Return(Raised(local.plugin.name)) /\ UNCHANGED <<home, local>>
                   ELSE /\ home' = install_mcp_config(home, local.plugin)
                        /\ local' = [local EXCEPT !.installed_components = DictSet(@, FlagEntry("mcp"))]
                        /\ pc' = "settings"
                        /\ UNCHANGED result
            ELSE pc' = "settings" /\ UNCHANGED <<home, local, result>>
       /\ UNCHANGED <<tempDirs, op, pre, content, translated, calls>>

\* if plugin.has_skills: _register_skills_directory
Settings == /\ pc = "settings"
            /\ IF has_skills(local.plugin)
                 THEN home' = [home EXCEPT !.settings = register_skills_directory(@, SkillsDir(install_path_of(local.plugin.name)))]
                 ELSE UNCHANGED home
            /\ pc' = "register"
            /\ UNCHANGED <<tempDirs, op, local, result, pre, content, translated, calls>>

\* the PluginInfo install_plugin builds from what it installed
InstallInfo(lc, source, now) == create_plugin_info(lc.plugin.name, source, lc.plugin.version, install_path_of(lc.plugin.name), GetList(lc.installed_components, "skills"), GetList(lc.installed_components, "agents"), GetList(lc.installed_components, "commands"), GetFlag(lc.installed_components, "hooks"), GetFlag(lc.installed_components, "mcp"), now)

\* create_plugin_info, register_plugin, and the successful InstallResult
Register == /\ pc = "register"
            /\ \E now \in Stamps : home' = [home EXCEPT !.registry = register_plugin(@, InstallInfo(local, op.source, now))]
            /\ Return([NoResult EXCEPT !.success = TRUE, !.plugin_name = local.plugin.name, !.message = "Installation complete", !.installed_components = local.installed_components, !.warnings = local.warnings])
            /\ UNCHANGED <<tempDirs, op, local, pre, content, translated, calls>>

\* remove_plugin(name, amplifier_home) is called
RemoveCall(name) == Begin([NoOp EXCEPT !.kind = "remove", !.name = name], "r_check")

\* mutant of RemoveCheck: the install directory is deleted before the lookup
RemoveCheckCleansFirst == /\ pc = "r_check"
                          /\ home' = [home EXCEPT !.plugins[op.name] = NoDir]
                          /\ IF op.name \notin Keys(get_installed_plugins(home.registry))
                               THEN Return(Failed(op.name, "not installed")) /\ UNCHANGED local
                               ELSE pc' = "r_settings" /\ local' = [local EXCEPT !.info = Lookup(get_installed_plugins(home.registry), op.name)] /\ UNCHANGED result
                          /\ UNCHANGED <<tempDirs, op, pre, content, translated, calls>>

\* installed = get_installed_plugins(); if name not in installed: return False
RemoveCheck == /\ pc = "r_check"
               /\ IF op.name \notin Keys(get_installed_plugins(home.registry))
                    THEN Return(Failed(op.name, "not installed")) /\ UNCHANGED local
                    ELSE pc' = "r_settings" /\ local' = [local EXCEPT !.info = Lookup(get_installed_plugins(home.registry), op.name)] /\ UNCHANGED result
               /\ UNCHANGED <<home, tempDirs, op, pre, content, translated, calls>>

\* mutant of RemoveSettings: the registry record is deleted with the first step
RemoveSettingsUnregisters == /\ pc = "r_settings"
                             /\ home' = [home EXCEPT !.settings = unregister_skills_directory(@, SkillsDir(local.info.install_path)), !.registry = unregister_plugin(@, op.name).registry]
                             /\ pc' = "r_link"
                             /\ UNCHANGED <<tempDirs, op, local, result, pre, content, translated, calls>>

\* _unregister_skills_directory(info.install_path / "skills")
RemoveSettings == /\ pc = "r_settings"
                  /\ home' = [home EXCEPT !.settings = unregister_skills_directory(@, SkillsDir(local.info.install_path))]
                  /\ pc' = "r_link"
                  /\ UNCHANGED <<tempDirs, op, local, result, pre, content, translated, calls>>

\* skills_link.unlink() for a symlink, shutil.rmtree for a directory
RemoveLink == /\ pc = "r_link"
              /\ home' = [home EXCEPT !.skills[op.name] = IF @.kind \in {"symlink", "dir"} THEN NoLink ELSE @]
              /\ pc' = "r_agents"
              /\ UNCHANGED <<tempDirs, op, local, result, pre, content, translated, calls>>

\* shutil.rmtree(agents_dir) when it is a directory
RemoveAgents == /\ pc = "r_agents"
                /\ home' = [home EXCEPT !.agents[op.name] = IF @.exists THEN NoAgents ELSE @]
                /\ pc' = "r_dir"
                /\ UNCHANGED <<tempDirs, op, local, result, pre, content, translated, calls>>

\* shutil.rmtree(info.install_path) when it is a directory
RemoveDir == /\ pc = "r_dir"
             /\ home' = [home EXCEPT !.plugins[local.info.install_path[2]] = IF @.exists THEN NoDir ELSE @]
             /\ pc' = "r_unregister"
             /\ UNCHANGED <<tempDirs, op, local, result, pre, content, translated, calls>>

\* unregister_plugin(name); return True, "Removed plugin"
RemoveUnregister == /\ pc = "r_unregister"
                    /\ home' = [home EXCEPT !.registry = unregister_plugin(@, op.name).registry]
                    /\ Return([NoResult EXCEPT !.success = TRUE, !.plugin_name = op.name, !.message = "Removed plugin"])
                    /\ UNCHANGED <<tempDirs, op, local, pre, content, translated, calls>>

\* mutant of UpdateCall: the reinstall is called without force
UpdateCallWithoutForce(name) == /\ name \in Keys(get_installed_plugins(home.registry))
                                /\ Lookup(get_installed_plugins(home.registry), name).source \in RemoteSources => tempDirs < MaxTemp
                                /\ Begin([NoOp EXCEPT !.kind = "install", !.source = Lookup(get_installed_plugins(home.registry), name).source, !.force = FALSE, !.name = name, !.update = TRUE], "resolve")

\* cli.update(name) of a registered name: install_plugin(info.source, force=True)
UpdateCall(name) == /\ name \in Keys(get_installed_plugins(home.registry))
                    /\ Lookup(get_installed_plugins(home.registry), name).source \in RemoteSources => tempDirs < MaxTemp
                    /\ Begin([NoOp EXCEPT !.kind = "install", !.source = Lookup(get_installed_plugins(home.registry), name).source, !.force = TRUE, !.name = name, !.update = TRUE], "resolve")

\* cli.update(name) of an unregistered name: SystemExit(1) before any install
UpdateNotInstalled(name) == /\ Idle
                            /\ name \notin Keys(get_installed_plugins(home.registry))
                            /\ op' = [NoOp EXCEPT !.kind = "update", !.name = name, !.update = TRUE]
                            /\ Return(Failed(name, "not installed"))
                            /\ local' = NoLocal
                            /\ pre' = home
                                     /\ UNCHANGED <<home, tempDirs, content, translated, calls>>

NoTranslation == [raised |-> FALSE, text |-> <<>>]

Init == /\ home \in InitHomes
        /\ tempDirs = 0
        /\ pc = "idle"
        /\ op = NoOp
        /\ local = NoLocal
        /\ result = NoResult
        /\ pre = InitHome
        /\ content = <<>>
        /\ translated = NoTranslation
        /\ calls = 0

Next == \/ \E source \in Sources, force \in BOOLEAN : InstallCall(source, force)
        \/ ResolveLocal
        \/ ResolveClone
        \/ ResolveCloneFails
        \/ ResolveFails
        \/ Parse
        \/ Check
        \/ Mkdir
        \/ Skills
        \/ Agents
        \/ Commands
        \/ Hooks
        \/ Mcp
        \/ Settings
        \/ Register
        \/ \E name \in Names : RemoveCall(name)
        \/ RemoveCheck
        \/ RemoveSettings
        \/ RemoveLink
        \/ RemoveAgents
        \/ RemoveDir
        \/ RemoveUnregister
        \/ \E name \in Names : UpdateCall(name)
        \/ \E name \in Names : UpdateNotInstalled(name)

Spec == Init /\ [][Next]_vars

(***************************************************************************)
(* The translator applied to generated documents: every document of up to  *)
(* MaxDocLen lines of the alphabet, and every document that is a           *)
(* delimiter, up to MaxFmLen lines, a delimiter and a body.                *)
(***************************************************************************)
Lines == {Delim, "", "name: a", "description: d", "model: m", "tools: t", "meta:", "  name: a", "hello", "- x", "x: y: z"}
Bodies == {<<"hello">>, <<"", "hello", "">>, <<"">>}
SeqsUpTo(S, n) == UNION {[1..k -> S] : k \in 0..n}
Docs == (SeqsUpTo(Lines, MaxDocLen) \ {<<>>}) \cup {<<Delim>> \o fm \o <<Delim>> \o body : fm \in SeqsUpTo(Lines, MaxFmLen), body \in Bodies}

InitAgent == /\ home = InitHome
             /\ tempDirs = 0
             /\ pc = "idle"
             /\ op = NoOp
             /\ local = NoLocal
             /\ result = NoResult
             /\ pre = InitHome
             /\ content \in Docs
             /\ translated = NoTranslation
             /\ calls = 0

\* translated = translate_agent(content)
TranslateAgent == /\ calls = 0
                  /\ translated' = translate_agent(content)
                  /\ calls' = 1
                  /\ UNCHANGED <<home, tempDirs, pc, op, local, result, pre, content>>

\* translate_agent applied to the document the call before returned
TranslateAgain == /\ calls = 1
                  /\ ~translated.raised
                  /\ content' = translated.text
                  /\ translated' = translate_agent(translated.text)
                  /\ calls' = 2
                  /\ UNCHANGED <<home, tempDirs, pc, op, local, result, pre>>

NextAgent == TranslateAgent \/ TranslateAgain

SpecAgent == InitAgent /\ [][NextAgent]_vars

(***************************************************************************)
(* Properties of install and remove (specification Spec)                   *)
(***************************************************************************)
\* the running or finished call is an install whose parse succeeded
Parsed == op.kind = "install" /\ local.plugin.manifest

\* the records of a registry whose name is not name, in order
Others(registry, name) == SelectSeq(get_installed_plugins(registry), LAMBDA r : r.name # name)

\* the names of the records of a registry, in order
RecordNames(registry) == [i \in 1..Len(get_installed_plugins(registry)) |-> get_installed_plugins(registry)[i].name]

\* the registry the call started from holds a record of the parsed name
NameWasRegistered == Parsed /\ local.plugin.name \in Keys(get_installed_plugins(pre.registry))

\* C1: install without force of a plugin whose name the registry already
\* holds (the parse has succeeded) goes no further than the check, returns a
\* failed result naming the plugin, and the whole home (registry, settings,
\* mcp.json, install directory, skills link, agents directory) is as it was
\* when the call started.
C1_AlreadyInstalledRejected == (NameWasRegistered /\ ~op.force) =>
                                 /\ pc \in {"check", "done"}
                                 /\ home = pre
                                 /\ (pc = "done" => (~result.success /\ ~result.raised /\ result.plugin_name = local.plugin.name /\ result.message = "already installed"))

\* C1 witness: a rejected install whose source is not the one the record came from
C1_Witness == /\ pc = "done" /\ NameWasRegistered /\ ~op.force
              /\ result.message = "already installed"
              /\ Lookup(get_installed_plugins(home.registry), local.plugin.name).source # op.source
              /\ home.plugins[local.plugin.name].exists

\* C2 as stated: install with force over a record of the same name succeeds
\* and leaves exactly one record under the name.
C2_ForcedInstallSucceeds == (pc = "done" /\ NameWasRegistered /\ op.force) =>
                              /\ result.success
                              /\ Count(RecordNames(home.registry), local.plugin.name) = 1

\* the record install wrote carries the call's source, the parsed version,
\* the install path and the components the call installed
RecordIsOfThisCall(r) == /\ r.source = op.source
                         /\ r.version = local.plugin.version
                         /\ r.install_path = install_path_of(local.plugin.name)
                         /\ r.components = result.installed_components

\* C2 amended: install with force over a record of the same name is never
\* rejected as already installed; unless a materialization step raises it
\* succeeds and leaves exactly one record under the name, carrying the
\* call's source, the parsed version, the install path and the installed
\* components, with the records of all other names unchanged; and in every
\* state the registry holds zero or one record per plugin name.
C2_ForcedInstallOverwrites == /\ \A n \in Names : Count(RecordNames(home.registry), n) <= 1
                              /\ (pc = "done" /\ NameWasRegistered /\ op.force) =>
                                   /\ result.message # "already installed"
                                   /\ result.success \/ result.raised
                                   /\ (result.success =>
                                         /\ Count(RecordNames(home.registry), local.plugin.name) = 1
                                         /\ RecordIsOfThisCall(Lookup(get_installed_plugins(home.registry), local.plugin.name))
                                         /\ Others(home.registry, local.plugin.name) = Others(pre.registry, local.plugin.name))

\* C2 witness: a forced reinstall from another source succeeded next to a
\* record of the other plugin
C2_Witness == /\ pc = "done" /\ NameWasRegistered /\ op.force /\ result.success
              /\ Lookup(get_installed_plugins(pre.registry), local.plugin.name).source # op.source
              /\ Others(home.registry, local.plugin.name) # <<>>

\* C3: remove of a name the registry has no record of returns success=false
\* with the not-installed message and the home (registry file, settings,
\* skills link, agents directory, every install directory) is as it was when
\* the call started.
C3_RemoveNotInstalled == (op.kind = "remove" /\ op.name \notin Keys(get_installed_plugins(pre.registry))) =>
                           /\ pc \in {"r_check", "done"}
                           /\ home = pre
                           /\ (pc = "done" => (~result.success /\ ~result.raised /\ result.message = "not installed"))

\* C3 witness: the rejected remove left the files of a failed install in place
C3_Witness == /\ pc = "done" /\ op.kind = "remove" /\ result.message = "not installed"
              /\ home.plugins[op.name].exists
              /\ home.registry.exists

\* the bundle a registry record was installed from
BundleOf(source) == IF source \in RemoteSources THEN Tree(Cloned(source)) ELSE Tree(source)

\* nothing of plugin name is left in the home but, possibly, mcp.json entries
ArtifactsGone(name) == /\ home.plugins[name] = NoDir
                       /\ home.skills[name] = NoLink
                       /\ home.agents[name] = NoAgents
                       /\ SkillsDir(install_path_of(name)) \notin Range(home.settings.dirs)
                       /\ name \notin Keys(get_installed_plugins(home.registry))

\* C4 as stated: when remove of an installed plugin has returned, nothing
\* its install added is left: the install directory, the skills link, the
\* agents directory, the settings entry and the registry record are gone,
\* and so is every server entry the install merged into mcp.json.
C4_UninstallReverses == (pc = "done" /\ op.kind = "remove" /\ result.success) =>
                          /\ ArtifactsGone(op.name)
                          /\ \A e \in Range(BundleOf(local.info.source).mcp_config.servers) : e \notin Range(home.mcp.servers)

\* C5 as stated: install never raises; it always returns an InstallResult.
C5_InstallNeverRaises == (pc = "done" /\ op.kind = "install") => ~result.raised

\* the running call is an install that has not returned success
InstallNotSucceeded == op.kind = "install" /\ (pc # "done" \/ ~result.success)

\* C6: until install writes the record as its last step the registry is as
\* it was when the call started: an install that is still running, or that
\* has failed (returned a failed result or raised), has written no new and
\* no modified record, whatever files it has left behind.
C6_RegistryWrittenLast == InstallNotSucceeded => home.registry = pre.registry

\* C6 witness: an install raised after it had written files
C6_Witness == /\ pc = "done" /\ op.kind = "install" /\ result.raised
              /\ home.plugins # pre.plugins
              /\ home.skills # pre.skills
              /\ home.registry.exists

\* C7: while the source is being resolved and parsed, and when resolution
\* (an unresolvable string, a failed clone) or the parse has failed, the home
\* is as it was when the call started, and the failed result then names the
\* plugin "unknown".
C7_ResolveParseFailure == (op.kind = "install" /\ ~local.plugin.manifest) =>
                            /\ pc \in {"resolve", "parse", "done"}
                            /\ home = pre
                            /\ (pc = "done" => (~result.success /\ ~result.raised /\ result.plugin_name = "unknown" /\ result.message \in {"Failed to resolve source", "Failed to parse plugin"}))

\* C7 witness: a clone failed against a home that holds an installed plugin
C7_Witness == /\ pc = "done" /\ op.kind = "install" /\ op.source \in RemoteSources
              /\ result.message = "Failed to resolve source"
              /\ home.registry.exists /\ home.registry.installed # <<>>

\* the statements of remove_plugin after the lookup, in order
RemoveSteps == <<"r_settings", "r_link", "r_agents", "r_dir", "r_unregister", "done">>

\* one step of a running remove: the statement after pc is the next of
\* RemoveSteps, and the step touches only its own part of the home
RemoveStepInOrder == \A i \in 1..5 : (op.kind = "remove" /\ pc = RemoveSteps[i]) =>
                       /\ pc' = RemoveSteps[i + 1]
                       /\ (i # 1 => home'.settings = home.settings)
                       /\ (i # 2 => home'.skills = home.skills)
                       /\ (i # 3 => home'.agents = home.agents)
                       /\ (i # 4 => home'.plugins = home.plugins)
                       /\ (i # 5 => home'.registry = home.registry)
                       /\ (i = 5 => op.name \notin Keys(get_installed_plugins(home'.registry)))

\* the registry record is there in every state of a running remove
RecordUntilLast == (op.kind = "remove" /\ pc \in {"r_settings", "r_link", "r_agents", "r_dir", "r_unregister"}) => op.name \in Keys(get_installed_plugins(home.registry))

\* C8: remove of a registered plugin runs settings entry, skills link,
\* agents directory, install directory, registry record in this order, and
\* in every state before the last step the registry record for the name
\* still exists.
C8_RegistryDeletedLast == []RecordUntilLast /\ [][RemoveStepInOrder]_vars

\* C8 witness: every artifact has been removed and the record is still there
C8_Witness == /\ op.kind = "remove" /\ pc = "r_unregister"
              /\ pre.plugins[op.name].exists /\ pre.skills[op.name].kind = "symlink" /\ pre.agents[op.name].exists
              /\ ~home.plugins[op.name].exists /\ home.skills[op.name] = NoLink /\ ~home.agents[op.name].exists
              /\ op.name \in Keys(home.registry.installed)

\* the settings step of install finds the skills directory already listed
AlreadyListed == /\ op.kind = "install" /\ pc = "settings" /\ has_skills(local.plugin)
                 /\ SkillsDir(install_path_of(local.plugin.name)) \in Range(home.settings.dirs)

\* no plugin's skills directory is listed twice
ListedAtMostOnce == \A n \in Names : Count(home.settings.dirs, SkillsDir(install_path_of(n))) <= 1

\* C9: registering a skills directory that config.skills.dirs already lists
\* leaves the list unchanged, and in every state each plugin's skills
\* directory occurs at most once in the list.
C9_SearchPathIdempotent == []ListedAtMostOnce /\ [][AlreadyListed => home'.settings.dirs = home.settings.dirs]_vars

\* C9 witness: a forced reinstall has passed the settings step with the
\* directory of the plugin listed before the call, next to two other entries
C9_Witness == /\ op.kind = "install" /\ pc = "register" /\ op.force /\ has_skills(local.plugin)
              /\ SkillsDir(install_path_of(local.plugin.name)) \in Range(pre.settings.dirs)
              /\ Len(home.settings.dirs) = 3

(***************************************************************************)
(* Properties of the translator (specification SpecAgent)                  *)
(***************************************************************************)
\* the frontmatter of doc is a mapping with the top-level key meta
HasMetaKey(doc) == /\ split_frontmatter(doc).matched
                   /\ yaml_safe_load(split_frontmatter(doc).frontmatter).kind = "map"
                   /\ "meta" \in Keys(yaml_safe_load(split_frontmatter(doc).frontmatter).entries)

\* C10: a document whose frontmatter has the top-level key meta is returned
\* unchanged, and translating the document a translation returned gives
\* that document again (after the second call content is what the first
\* call returned; a call that raises returns nothing to translate again).
C10_AgentIdempotent == /\ (calls >= 1 /\ HasMetaKey(content)) => (~translated.raised /\ translated.text = content)
                       /\ calls = 2 => (~translated.raised /\ translated.text = content)

\* C10 witness: the first call regrouped the frontmatter (the nested
\* description line is written by yaml.dump only) and dropped blank lines
\* before the body, and the second call returned that document unchanged
C10_Witness == /\ calls = 2 /\ translated.text = content
               /\ "  description: d" \in Range(content)
               /\ "tools: t" \in Range(content)
               /\ "model: m" \notin Range(content)

\* the class of the frontmatter of content: "absent" when the document has
\* no frontmatter block, otherwise what yaml.safe_load makes of the block
FrontmatterKind(doc) == IF split_frontmatter(doc).matched THEN yaml_safe_load(split_frontmatter(doc).frontmatter).kind ELSE "absent"

\* C11 as stated: translate_agent never raises, for every class of
\* frontmatter (absent, invalid, empty, a scalar, a list, a mapping), and
\* returns the input unchanged when the frontmatter is absent or is not a
\* mapping.
C11_AgentNeverRaises == (calls = 1) =>
                          /\ ~translated.raised
                          /\ (FrontmatterKind(content) # "map" => translated.text = content)

\* the entries of the frontmatter mapping of a document, in key order
FrontmatterEntries(doc) == yaml_safe_load(split_frontmatter(doc).frontmatter).entries

\* the line of the closing delimiter the pattern of _split_frontmatter
\* matches in a document; 0 when the pattern does not match
ClosingLine(doc) == LET starts == IF Len(doc) >= 2 /\ doc[1] = Delim THEN {s \in 2..(BlankRun(doc, 2) + 2) : ClosingAt(doc, s) # 0} ELSE {}
                    IN IF starts = {} THEN 0 ELSE ClosingAt(doc, CHOOSE x \in starts : \A y \in starts : y <= x)

\* the text of a document after the line of its closing delimiter
TextAfterClosing(doc) == SubSeq(doc, ClosingLine(doc) + 1, Len(doc))

\* the frontmatter lines of a document between its delimiters
TextBetween(doc) == SubSeq(doc, 2, ClosingLine(doc) - 1)

\* the top-level keys of frontmatter lines, in order
TopKeys(fm) == LET top == SelectSeq(fm, LAMBDA l : LineInfo(l).cls \in {"top", "open"}) IN [i \in 1..Len(top) |-> LineInfo(top[i]).name]

\* the top-level lines of frontmatter whose key is not one of keys, in order
TopLinesBut(fm, keys) == SelectSeq(fm, LAMBDA l : LineInfo(l).cls \in {"top", "open"} /\ LineInfo(l).name \notin keys)

\* the lines under the meta key of frontmatter lines, in order
MetaLines(fm) == SelectSeq(fm, LAMBDA l : LineInfo(l).cls = "nested")

\* the lines name and description of the entries make under meta
ExpectedMeta(entries) == (IF "name" \in Keys(entries) THEN <<"  name: " \o Lookup(entries, "name").value>> ELSE <<>>) \o (IF "description" \in Keys(entries) THEN <<"  description: " \o Lookup(entries, "description").value>> ELSE <<>>)

\* the lines the entries other than name, description and model make
ExpectedRest(entries) == LET rest == SelectSeq(entries, LAMBDA e : e.name \notin {"name", "description", "model"}) IN [i \in 1..Len(rest) |-> rest[i].name \o ": " \o rest[i].value]

\* the document was given to translate_agent with a mapping without meta
TranslatedMapping == calls = 1 /\ FrontmatterKind(content) = "map" /\ ~HasMetaKey(content)

\* the frontmatter of the translation: meta is the first key and holds the
\* input's name and description (those there are), there is no model key,
\* and the other top-level keys follow with their values in input order
GroupedFrontmatter == /\ ~translated.raised
                      /\ ClosingLine(translated.text) # 0
                      /\ TopKeys(TextBetween(translated.text)) # <<>>
                      /\ Head(TopKeys(TextBetween(translated.text))) = "meta"
                      /\ MetaLines(TextBetween(translated.text)) = ExpectedMeta(FrontmatterEntries(content))
                      /\ "model" \notin Range(TopKeys(TextBetween(translated.text)))
                      /\ TopLinesBut(TextBetween(translated.text), {"meta"}) = ExpectedRest(FrontmatterEntries(content))

\* C12 as stated: for a mapping without meta the translation has the grouped
\* frontmatter, and its body after the closing delimiter is the text after
\* the closing delimiter of the input, verbatim.
C12_AgentTranslation == TranslatedMapping =>
                          /\ GroupedFrontmatter
                          /\ TextAfterClosing(translated.text) = TextAfterClosing(content)

(***************************************************************************)
(* translate_command applied to generated documents (specification         *)
(* SpecCommand)                                                            *)
(***************************************************************************)
\* a line without the whitespace str.strip() takes from its ends
StripLine(l) == IF l = "  hello" THEN "hello" ELSE l

RECURSIVE DropBlankHead(_)
DropBlankHead(L) == IF L # <<>> /\ Head(L) = "" THEN DropBlankHead(Tail(L)) ELSE L

RECURSIVE DropBlankTail(_)
DropBlankTail(L) == IF L # <<>> /\ L[Len(L)] = "" THEN DropBlankTail(SubSeq(L, 1, Len(L) - 1)) ELSE L

\* body.strip(): the blank lines at both ends go, and so does the whitespace
\* at the start of the first and at the end of the last line that is left
Strip(L) == LET core == DropBlankTail(DropBlankHead(L))
            IN IF core = <<>> THEN <<"">> ELSE [i \in 1..Len(core) |-> IF i \in {1, Len(core)} THEN StripLine(core[i]) ELSE core[i]]

\* the result dict of translate_command before the frontmatter is looked at
CommandDefaults(body) == [raised |-> FALSE, description |-> "", disable_model_invocation |-> FALSE, prompt |-> Strip(body)]

\* data.get(key, default) on the entries of a mapping
DictGet(entries, key, default) == IF key \in Keys(entries) THEN Lookup(entries, key).value ELSE default

\* translate_command(content): raised is TRUE when the call raises (a str
\* and a list have no get), otherwise the fields of the returned dict
translate_command(doc) == LET sp == split_frontmatter(doc)
                              data == yaml_safe_load(sp.frontmatter)
                          IN CASE ~sp.matched \/ sp.frontmatter = <<"">> -> CommandDefaults(sp.body)
                               [] sp.matched /\ sp.frontmatter # <<"">> /\ data.kind \in {"none", "error"} -> CommandDefaults(sp.body)
                               [] sp.matched /\ sp.frontmatter # <<"">> /\ data.kind \in {"scalar", "list"} -> [CommandDefaults(sp.body) EXCEPT !.raised = TRUE]
                               [] OTHER -> [CommandDefaults(sp.body) EXCEPT !.description = DictGet(data.entries, "description", ""), !.disable_model_invocation = (DictGet(data.entries, "disable-model-invocation", "false") = "true")]

CommandLines == {Delim, "", "description: d", "disable-model-invocation: true", "tools: t", "hello", "- x", "x: y: z"}
CommandBodies == {<<"hello">>, <<"", "  hello", "">>, <<"hello", "", "hello">>, <<"">>}
CommandDocs == (SeqsUpTo(CommandLines, MaxDocLen) \ {<<>>}) \cup {<<Delim>> \o fm \o <<Delim>> \o body : fm \in SeqsUpTo(CommandLines, MaxFmLen), body \in CommandBodies}

InitCommand == /\ home = InitHome
               /\ tempDirs = 0
               /\ pc = "idle"
               /\ op = NoOp
               /\ local = NoLocal
               /\ result = NoResult
               /\ pre = InitHome
               /\ content \in CommandDocs
               /\ translated = NoTranslation
               /\ calls = 0

\* translated = translate_command(content)
TranslateCommand == /\ calls = 0
                    /\ translated' = translate_command(content)
                    /\ calls' = 1
                    /\ UNCHANGED <<home, tempDirs, pc, op, local, result, pre, content>>

NextCommand == TranslateCommand

SpecCommand == InitCommand /\ [][NextCommand]_vars

\* C13 as stated: translate_command never raises; the prompt is the trimmed
\* body; frontmatter that is absent, invalid, empty or not a mapping gives
\* the defaults, and a mapping gives its description and its
\* disable-model-invocation value.
C13_CommandNeverRaises == (calls = 1) =>
                            /\ ~translated.raised
                            /\ translated.prompt = Strip(IF ClosingLine(content) = 0 THEN content ELSE TextAfterClosing(content))
                            /\ (FrontmatterKind(content) # "map" => (translated.description = "" /\ ~translated.disable_model_invocation))
                            /\ (FrontmatterKind(content) = "map" =>
                                  /\ translated.description = (IF "description: d" \in Range(TextBetween(content)) THEN "d" ELSE "")
                                  /\ translated.disable_model_invocation = ("disable-model-invocation: true" \in Range(TextBetween(content))))

(***************************************************************************)
(* translate_hooks applied to generated configurations (specification      *)
(* SpecHooks).  A command is the sequence of its pieces; the piece         *)
(* Placeholder is one occurrence of ${CLAUDE_PLUGIN_ROOT}.                 *)
(***************************************************************************)
MaxHooks == 2

Placeholder == "${CLAUDE_PLUGIN_ROOT}"

\* event_map of translate_hooks, as entries in the order of the dict
event_map == <<[name |-> "SessionStart", value |-> "session_start"], [name |-> "PreToolUse", value |-> "pre_tool_call"], [name |-> "PostToolUse", value |-> "post_tool_call"], [name |-> "Stop", value |-> "session_end"], [name |-> "Notification", value |-> "notification"]>>

\* str.lower() on the event names of the model
Lower(s) == CASE s = "SessionStart" -> "sessionstart"
              [] s = "PreToolUse" -> "pretooluse"
              [] s = "PostToolUse" -> "posttooluse"
              [] s = "Stop" -> "stop"
              [] s = "Notification" -> "notification"
              [] s = "SubagentStop" -> "subagentstop"
              [] OTHER -> s

\* _translate_hook_command: every occurrence of the placeholder becomes the
\* target path; the second replace finds no placeholder left
translate_hook_command(command, target_root) == [i \in 1..Len(command) |-> IF command[i] = Placeholder THEN target_root ELSE command[i]]

RECURSIVE HookListEntries(_, _, _)
\* the inner loop of translate_hooks over hook_list (every type is taken)
HookListEntriesAnyType(hook_list, amp_event, target_root) == IF hook_list = <<>> THEN <<>>
                                                             ELSE <<[event |-> amp_event, command |-> translate_hook_command(Head(hook_list).command, target_root)]>> \o HookListEntries(Tail(hook_list), amp_event, target_root)

\* the inner loop of translate_hooks over hook_list
HookListEntries(hook_list, amp_event, target_root) == IF hook_list = <<>> THEN <<>>
                                                      ELSE (IF Head(hook_list).type = "command" THEN <<[event |-> amp_event, command |-> translate_hook_command(Head(hook_list).command, target_root)]>> ELSE <<>>) \o HookListEntries(Tail(hook_list), amp_event, target_root)

RECURSIVE HandlerEntries(_, _, _)
\* the loop of translate_hooks over the handlers of one event
HandlerEntries(handlers, amp_event, target_root) == IF handlers = <<>> THEN <<>> ELSE HookListEntries(Head(handlers), amp_event, target_root) \o HandlerEntries(Tail(handlers), amp_event, target_root)

RECURSIVE EventEntries(_, _)
\* the loop of translate_hooks over hooks_data.items()
EventEntries(hooks_data, target_root) == IF hooks_data = <<>> THEN <<>>
                                         ELSE HandlerEntries(Head(hooks_data).handlers, DictGet(event_map, Head(hooks_data).name, Lower(Head(hooks_data).name)), target_root) \o EventEntries(Tail(hooks_data), target_root)

\* translate_hooks(hooks_config, plugin_root, target_root): present is FALSE
\* when the result is the empty dict
translate_hooks(hooks_config, plugin_root, target_root) == LET shell_hooks == EventEntries(IF hooks_config.has_hooks THEN hooks_config.hooks ELSE <<>>, target_root)
                                                           IN [present |-> shell_hooks # <<>>, shell_hooks |-> shell_hooks]

\* the hook entries, hook lists, handler lists and configurations generated
HookEntries == {[type |-> "command", command |-> <<Placeholder, "/hooks/start.sh">>], [type |-> "command", command |-> <<"cd ", Placeholder, " && ", Placeholder, "/run">>], [type |-> "command", command |-> <<>>], [type |-> "prompt", command |-> <<"check ", Placeholder>>]}
HookLists == SeqsUpTo(HookEntries, MaxHooks)
HandlerLists == {<<>>} \cup {<<hl>> : hl \in HookLists} \cup {<<hl, <<[type |-> "command", command |-> <<"echo">>]>>>> : hl \in HookLists}
EventNames == {"SessionStart", "PreToolUse", "PostToolUse", "Stop", "Notification", "SubagentStop", "custom"}
LastEvent == [name |-> "Stop", handlers |-> <<<<[type |-> "command", command |-> <<Placeholder, "/stop">>]>>>>]
HookConfigs == {[has_hooks |-> FALSE, hooks |-> <<>>], [has_hooks |-> TRUE, hooks |-> <<>>]}
               \cup {[has_hooks |-> TRUE, hooks |-> <<[name |-> n, handlers |-> hs]>>] : n \in EventNames, hs \in HandlerLists}
               \cup {[has_hooks |-> TRUE, hooks |-> <<[name |-> n, handlers |-> hs], LastEvent>>] : n \in EventNames \ {"Stop"}, hs \in HandlerLists}
TargetRoots == {"/home/plugins/alpha", "/target"}

InitHooks == /\ home = InitHome
             /\ tempDirs = 0
             /\ pc = "idle"
             /\ op = NoOp
             /\ local = NoLocal
             /\ result = NoResult
             /\ pre = InitHome
             /\ content \in [hooks_config : HookConfigs, plugin_root : {"/plugin"}, target_root : TargetRoots]
             /\ translated = NoTranslation
             /\ calls = 0

\* translated = translate_hooks(hooks_config, plugin_root, target_root)
TranslateHooks == /\ calls = 0
                  /\ translated' = translate_hooks(content.hooks_config, content.plugin_root, content.target_root)
                  /\ calls' = 1
                  /\ UNCHANGED <<home, tempDirs, pc, op, local, result, pre, content>>

NextHooks == TranslateHooks

SpecHooks == InitHooks /\ [][NextHooks]_vars

\* the events of the configuration given to translate_hooks
GivenHooks == IF content.hooks_config.has_hooks THEN content.hooks_config.hooks ELSE <<>>

\* where the hook entries of type "command" are: event, handler, entry
CommandPositions(hooks) == UNION {UNION {{<<e, h, k>> : k \in {j \in 1..Len(hooks[e].handlers[h]) : hooks[e].handlers[h][j].type = "command"}} : h \in 1..Len(hooks[e].handlers)} : e \in 1..Len(hooks)}

\* position p comes before position q in the input
Before(p, q) == \/ p[1] < q[1]
                \/ p[1] = q[1] /\ p[2] < q[2]
                \/ p[1] = q[1] /\ p[2] = q[2] /\ p[3] < q[3]

\* the place of position p among the positions P, in input order
Rank(P, p) == 1 + Cardinality({q \in P : Before(q, p)})

\* the target name of a source event: the fixed table, else lowercased
TargetEvent(name) == CASE name = "SessionStart" -> "session_start"
                       [] name = "PreToolUse" -> "pre_tool_call"
                       [] name = "PostToolUse" -> "post_tool_call"
                       [] name = "Stop" -> "session_end"
                       [] name = "Notification" -> "notification"
                       [] OTHER -> Lower(name)

\* the output entry out is the translation of the hook entry at position p
EntryTranslates(out, p) == /\ out.event = TargetEvent(GivenHooks[p[1]].name)
                           /\ Placeholder \notin Range(out.command)
                           /\ Len(out.command) = Len(GivenHooks[p[1]].handlers[p[2]][p[3]].command)
                           /\ \A i \in 1..Len(out.command) : out.command[i] = (IF GivenHooks[p[1]].handlers[p[2]][p[3]].command[i] = Placeholder THEN content.target_root ELSE GivenHooks[p[1]].handlers[p[2]][p[3]].command[i])

\* C14: translate_hooks gives one {event, command} entry per hook entry of
\* type "command" and none for another type, in input order; the event is
\* the table's target name for the five known events and the lowercased
\* name otherwise; every placeholder of a command is replaced by the target
\* path and none is left; with no entry left the result is the empty
\* mapping.
C14_HooksTranslation == (calls = 1) =>
                          /\ Len(translated.shell_hooks) = Cardinality(CommandPositions(GivenHooks))
                          /\ \A p \in CommandPositions(GivenHooks) : EntryTranslates(translated.shell_hooks[Rank(CommandPositions(GivenHooks), p)], p)
                          /\ translated.present = (CommandPositions(GivenHooks) # {})

\* C14 witness: an event outside the table with a prompt entry between
\* command entries, one command with two placeholders, and a second event
C14_Witness == /\ calls = 1 /\ Len(GivenHooks) = 2 /\ GivenHooks[1].name = "SubagentStop"
               /\ Len(GivenHooks[1].handlers) = 2 /\ Len(GivenHooks[1].handlers[1]) = 2
               /\ GivenHooks[1].handlers[1][1].type = "prompt"
               /\ Len(translated.shell_hooks) = 3
               /\ translated.shell_hooks[1] = [event |-> "subagentstop", command |-> <<"cd ", "/target", " && ", "/target", "/run">>]
               /\ translated.shell_hooks[3].event = "session_end"

(***************************************************************************)
(* parser.py applied to generated plugin directories (specification        *)
(* SpecParse).  A JSON file is absent, malformed (json.load raises         *)
(* JSONDecodeError, a ValueError) or valid with the value it holds.        *)
(***************************************************************************)
AbsentFile == [state |-> "absent", value |-> ""]
MalformedFile == [state |-> "malformed", value |-> ""]
ValidFile(v) == [state |-> "valid", value |-> v]

\* a call of the parser that raised, and one that returned
ParseRaised(error, message) == [raised |-> TRUE, error |-> error, message |-> message, name |-> "", skills |-> <<>>, agents |-> <<>>, commands |-> <<>>, hooks_config |-> AbsentFile, hooks_scripts |-> <<>>, mcp_config |-> AbsentFile, lsp_config |-> AbsentFile]

\* _parse_manifest that reads plugin.json at the root first
parse_manifest_root_first(dir) == LET manifest_path == IF dir.root_manifest.state # "absent" THEN dir.root_manifest ELSE dir.meta_manifest
                                  IN CASE manifest_path.state = "absent" -> [raised |-> TRUE, error |-> "ValueError", message |-> "No plugin.json found", name |-> ""]
                                       [] manifest_path.state = "malformed" -> [raised |-> TRUE, error |-> "JSONDecodeError", message |-> "", name |-> ""]
                                       [] OTHER -> [raised |-> FALSE, error |-> "", message |-> "", name |-> manifest_path.value]

\* _parse_manifest: .claude-plugin/plugin.json, else plugin.json at the root
parse_manifest(dir) == LET manifest_path == IF dir.meta_manifest.state # "absent" THEN dir.meta_manifest ELSE dir.root_manifest
                       IN CASE manifest_path.state = "absent" -> [raised |-> TRUE, error |-> "ValueError", message |-> "No plugin.json found", name |-> ""]
                            [] manifest_path.state = "malformed" -> [raised |-> TRUE, error |-> "JSONDecodeError", message |-> "", name |-> ""]
                            [] OTHER -> [raised |-> FALSE, error |-> "", message |-> "", name |-> manifest_path.value]

\* _discover_skills: the subdirectories of skills/ that hold a SKILL.md
discover_skills(dir) == IF ~dir.skills.exists THEN <<>> ELSE LET with == SelectSeq(dir.skills.entries, LAMBDA e : e.is_dir /\ e.skill_md) IN [i \in 1..Len(with) |-> with[i].name]

\* _discover_agents, _discover_commands: the *.md files of the folder
discover_agents(dir) == IF ~dir.agents.exists THEN <<>> ELSE dir.agents.md_files
discover_commands(dir) == IF ~dir.commands.exists THEN <<>> ELSE dir.commands.md_files

\* _discover_hooks: hooks.json (when there) and the scripts of hooks/
discover_hooks(dir) == CASE ~dir.hooks.exists -> [raised |-> FALSE, hooks_config |-> AbsentFile, hooks_scripts |-> <<>>]
                         [] dir.hooks.exists /\ dir.hooks.hooks_json.state = "malformed" -> [raised |-> TRUE, hooks_config |-> AbsentFile, hooks_scripts |-> <<>>]
                         [] OTHER -> [raised |-> FALSE, hooks_config |-> dir.hooks.hooks_json, hooks_scripts |-> dir.hooks.scripts]

\* _load_json_config: None when the file is absent; raised when malformed
load_json_config(file) == [raised |-> file.state = "malformed", config |-> IF file.state = "valid" THEN file ELSE AbsentFile]

\* parse_plugin(plugin_path) on the directory tree dir
parse_plugin_tree(dir) == CASE ~dir.is_dir -> ParseRaised("ValueError", "Plugin path is not a directory")
                            [] dir.is_dir /\ parse_manifest(dir).raised -> ParseRaised(parse_manifest(dir).error, parse_manifest(dir).message)
                            [] dir.is_dir /\ ~parse_manifest(dir).raised /\ discover_hooks(dir).raised -> ParseRaised("JSONDecodeError", "")
                            [] dir.is_dir /\ ~parse_manifest(dir).raised /\ ~discover_hooks(dir).raised /\ load_json_config(dir.mcp).raised -> ParseRaised("JSONDecodeError", "")
                            [] dir.is_dir /\ ~parse_manifest(dir).raised /\ ~discover_hooks(dir).raised /\ ~load_json_config(dir.mcp).raised /\ load_json_config(dir.lsp).raised -> ParseRaised("JSONDecodeError", "")
                            [] OTHER -> [raised |-> FALSE, error |-> "", message |-> "", name |-> parse_manifest(dir).name, skills |-> discover_skills(dir), agents |-> discover_agents(dir), commands |-> discover_commands(dir), hooks_config |-> discover_hooks(dir).hooks_config, hooks_scripts |-> discover_hooks(dir).hooks_scripts, mcp_config |-> load_json_config(dir.mcp).config, lsp_config |-> load_json_config(dir.lsp).config]

\* the directory trees generated
JsonFiles(v) == {AbsentFile, MalformedFile, ValidFile(v)}
SkillsFolders == {[exists |-> FALSE, entries |-> <<>>], [exists |-> TRUE, entries |-> <<>>], [exists |-> TRUE, entries |-> <<[name |-> "s0", is_dir |-> TRUE, skill_md |-> FALSE], [name |-> "s1", is_dir |-> TRUE, skill_md |-> TRUE], [name |-> "s2.txt", is_dir |-> FALSE, skill_md |-> FALSE]>>]}
MdFolders(f) == {[exists |-> FALSE, md_files |-> <<>>], [exists |-> TRUE, md_files |-> <<f>>]}
HooksFolders == {[exists |-> FALSE, hooks_json |-> AbsentFile, scripts |-> <<>>]} \cup {[exists |-> TRUE, hooks_json |-> j, scripts |-> <<"start.sh">>] : j \in JsonFiles("hooks")}
PluginDirs == [is_dir : BOOLEAN, meta_manifest : JsonFiles("meta-name"), root_manifest : JsonFiles("root-name"), skills : SkillsFolders, agents : MdFolders("a1.md"), commands : MdFolders("c1.md"), hooks : HooksFolders, mcp : JsonFiles("mcp"), lsp : JsonFiles("lsp")]

InitParse == /\ home = InitHome
             /\ tempDirs = 0
             /\ pc = "idle"
             /\ op = NoOp
             /\ local = NoLocal
             /\ result = NoResult
             /\ pre = InitHome
             /\ content \in PluginDirs
             /\ translated = NoTranslation
             /\ calls = 0

\* translated = parse_plugin(content), or the exception it raised
ParsePlugin == /\ calls = 0
               /\ translated' = parse_plugin_tree(content)
               /\ calls' = 1
               /\ UNCHANGED <<home, tempDirs, pc, op, local, result, pre, content>>

NextParse == ParsePlugin

SpecParse == InitParse /\ [][NextParse]_vars

\* the directory has a manifest at neither location
NoManifest == content.meta_manifest.state = "absent" /\ content.root_manifest.state = "absent"

\* the manifest parse_plugin reads: the one in .claude-plugin when there is one
ManifestRead == IF content.meta_manifest.state # "absent" THEN content.meta_manifest ELSE content.root_manifest

\* a JSON document parse_plugin reads is there and is malformed
MalformedJson == \/ ManifestRead.state = "malformed"
                 \/ content.hooks.exists /\ content.hooks.hooks_json.state = "malformed"
                 \/ content.mcp.state = "malformed"
                 \/ content.lsp.state = "malformed"

\* an optional folder or file that is absent gives the empty list or None
AbsentGivesEmpty == /\ (~content.skills.exists => translated.skills = <<>>)
                    /\ (~content.agents.exists => translated.agents = <<>>)
                    /\ (~content.commands.exists => translated.commands = <<>>)
                    /\ (~content.hooks.exists => (translated.hooks_config = AbsentFile /\ translated.hooks_scripts = <<>>))
                    /\ (content.hooks.exists /\ content.hooks.hooks_json.state = "absent" => translated.hooks_config = AbsentFile)
                    /\ (content.mcp.state = "absent" => translated.mcp_config = AbsentFile)
                    /\ (content.lsp.state = "absent" => translated.lsp_config = AbsentFile)

\* C15 as stated: parse_plugin fails exactly when the path is not a
\* directory or there is no manifest at either location.
C15_ParseFailsExactly == (calls = 1) => (translated.raised <=> (~content.is_dir \/ NoManifest))

\* C15 amended: parse_plugin raises ValueError with its own message exactly
\* when the path is not a directory or no manifest is at either location,
\* and it fails besides exactly when a JSON document it reads (the manifest,
\* hooks.json, .mcp.json, .lsp.json) is there and malformed; the manifest
\* in .claude-plugin is the one read when both are there; an absent optional
\* folder or config file is never an error and gives an empty list or None.
C15_ParseFailures == (calls = 1) =>
                       /\ translated.raised <=> (~content.is_dir \/ NoManifest \/ MalformedJson)
                       /\ (translated.raised /\ translated.error = "ValueError") <=> (~content.is_dir \/ NoManifest)
                       /\ (translated.raised /\ translated.error = "ValueError") => translated.message = (IF content.is_dir THEN "No plugin.json found" ELSE "Plugin path is not a directory")
                       /\ ~translated.raised => (translated.name = ManifestRead.value /\ AbsentGivesEmpty)
                       /\ (~translated.raised /\ content.meta_manifest.state = "valid") => translated.name = "meta-name"

\* C15 witness: both manifests are there, no optional folder or file is,
\* and the parse returned the name of the manifest in .claude-plugin
C15_Witness == /\ calls = 1 /\ ~translated.raised /\ translated.name = "meta-name"
               /\ content.meta_manifest.state = "valid" /\ content.root_manifest.state = "valid"
               /\ ~content.skills.exists /\ ~content.agents.exists /\ ~content.commands.exists /\ ~content.hooks.exists
               /\ content.mcp.state = "absent" /\ content.lsp.state = "absent"
               /\ translated.skills = <<>> /\ translated.mcp_config = AbsentFile

(***************************************************************************)
(* registry.py called directly (specification SpecRegistry): op is the     *)
(* call, local.info the PluginInfo given to register_plugin,               *)
(* result.success the value unregister_plugin returned, pre the home       *)
(* before the call.                                                        *)
(***************************************************************************)
\* the PluginInfo values given to register_plugin
RegistryInfos == {create_plugin_info(n, s, v, install_path_of(n), sk, <<>>, <<>>, FALSE, FALSE, now) : n \in Names, s \in {"/src/alpha1", "github.com/o/beta"}, v \in {"1.0", "2.0"}, sk \in {<<>>, <<"s1">>}, now \in Stamps}

InitRegistry == /\ home = InitHome
                /\ tempDirs = 0
                /\ pc = "idle"
                /\ op = NoOp
                /\ local = NoLocal
                /\ result = NoResult
                /\ pre = InitHome
                /\ content = <<>>
                /\ translated = NoTranslation
                /\ calls = 0

\* register_plugin(info, amplifier_home)
RegistryRegister(info) == /\ home' = [home EXCEPT !.registry = register_plugin(@, info)]
                          /\ pre' = home
                          /\ op' = [NoOp EXCEPT !.kind = "register", !.name = info.name]
                          /\ local' = [NoLocal EXCEPT !.info = info]
                          /\ result' = NoResult
                          /\ UNCHANGED <<tempDirs, pc, content, translated, calls>>

\* unregister_plugin(name, amplifier_home)
RegistryUnregister(name) == /\ home' = [home EXCEPT !.registry = unregister_plugin(@, name).registry]
                            /\ pre' = home
                            /\ op' = [NoOp EXCEPT !.kind = "unregister", !.name = name]
                            /\ local' = NoLocal
                            /\ result' = [NoResult EXCEPT !.success = unregister_plugin(home.registry, name).removed]
                            /\ UNCHANGED <<tempDirs, pc, content, translated, calls>>

NextRegistry == \/ \E info \in RegistryInfos : RegistryRegister(info)
                \/ \E name \in Names : RegistryUnregister(name)

SpecRegistry == InitRegistry /\ [][NextRegistry]_vars

\* C16: unregister_plugin returns True exactly when the registry held a
\* record of the name before the call, and then only that record is gone;
\* when the file is absent or holds no record of the name it returns False
\* and the registry, the absence of the file included, is as before.
C16_UnregisterFrame == (op.kind = "unregister") =>
                         /\ result.success <=> (op.name \in Keys(get_installed_plugins(pre.registry)))
                         /\ result.success => (home.registry.exists /\ get_installed_plugins(home.registry) = Others(pre.registry, op.name))
                         /\ ~result.success => home.registry = pre.registry
                         /\ home = [pre EXCEPT !.registry = home.registry]

\* C16 witness: a record was removed next to the record of the other plugin
C16_Witness == /\ op.kind = "unregister" /\ result.success
               /\ Len(get_installed_plugins(pre.registry)) = 2
               /\ Len(get_installed_plugins(home.registry)) = 1
               /\ op.name = get_installed_plugins(pre.registry)[1].name

\* C17: after register_plugin(info) the listing maps info.name to one record
\* with the source, version, installed-at, install path and components of
\* info, the records of other names are as before and the file exists; the
\* listing of a home without the file is empty.
C17_RegisterUpsert == /\ (op.kind = "register") =>
                           /\ home.registry.exists
                           /\ Count(RecordNames(home.registry), op.name) = 1
                           /\ Lookup(get_installed_plugins(home.registry), op.name) = local.info
                           /\ Others(home.registry, op.name) = Others(pre.registry, op.name)
                      /\ ~home.registry.exists => get_installed_plugins(home.registry) = <<>>

\* C17 witness: a record with components replaced one of the same name with
\* another version, next to the record of the other plugin
C17_Witness == /\ op.kind = "register" /\ local.info.components # <<>>
               /\ op.name \in Keys(get_installed_plugins(pre.registry))
               /\ Lookup(get_installed_plugins(pre.registry), op.name).version # local.info.version
               /\ Others(home.registry, op.name) # <<>>
               /\ Lookup(get_installed_plugins(home.registry), op.name).install_path = install_path_of(op.name)

(***************************************************************************)
(* Properties of install, remove and update (specification Spec), continued *)
(***************************************************************************)
\* the running install has a plugin with an MCP config and is past the
\* MCP step, or has returned success
McpInstalled == /\ Parsed /\ has_mcp(local.plugin)
                /\ pc \in {"settings", "register"} \/ (pc = "done" /\ result.success)

\* C18: when install has merged the MCP config of a plugin into mcp.json,
\* every server entry of the plugin is there with the plugin's value (a
\* same-named entry is overwritten), every entry of another name that was
\* there before the call is unchanged, no other entry was added, and the
\* other top-level keys of the document are unchanged.
C18_McpMerge == McpInstalled =>
                  /\ home.mcp.exists
                  /\ \A e \in Range(local.plugin.mcp_config.servers) : e \in Range(home.mcp.servers)
                  /\ \A e \in Range(pre.mcp.servers) : (e.name \notin Keys(local.plugin.mcp_config.servers)) => e \in Range(home.mcp.servers)
                  /\ \A n \in Keys(home.mcp.servers) : n \in Keys(pre.mcp.servers) \cup Keys(local.plugin.mcp_config.servers)
                  /\ \A n \in Keys(home.mcp.servers) : Count([i \in 1..Len(home.mcp.servers) |-> home.mcp.servers[i].name], n) = 1
                  /\ home.mcp.other = pre.mcp.other

\* C18 witness: a successful install overwrote a server entry of the same
\* name in a document that holds another key and a server of another name
C18_Witness == /\ McpInstalled /\ pc = "done" /\ pre.mcp.other
               /\ "srvA" \in Keys(pre.mcp.servers)
               /\ Lookup(pre.mcp.servers, "srvA").value # Lookup(home.mcp.servers, "srvA").value
               /\ "srvC" \in Keys(home.mcp.servers)
               /\ "srvC" \notin Keys(local.plugin.mcp_config.servers)

\* the call is the install_plugin that cli.update makes for a registered name
UpdateInstall == op.kind = "install" /\ op.update

\* C19 as stated: after update of a registered name the registry record of
\* the name is the one the reinstall wrote, with the stored source.
C19_UpdateReinstalls == (UpdateInstall /\ pc = "done") =>
                          /\ result.success
                          /\ RecordIsOfThisCall(Lookup(get_installed_plugins(home.registry), op.name))

\* C19 amended: update of a registered name calls install with force on the
\* stored source; when that install succeeds the record under the manifest
\* name is the one it wrote and carries the stored source string; when it
\* does not succeed the registry is as before; update of an unregistered
\* name fails and changes nothing.
C19_UpdateIsForcedReinstall == /\ UpdateInstall =>
                                    /\ op.force
                                    /\ op.name \in Keys(get_installed_plugins(pre.registry))
                                    /\ op.source = Lookup(get_installed_plugins(pre.registry), op.name).source
                               /\ (UpdateInstall /\ pc = "done" /\ result.success) =>
                                    /\ RecordIsOfThisCall(Lookup(get_installed_plugins(home.registry), local.plugin.name))
                                    /\ Lookup(get_installed_plugins(home.registry), local.plugin.name).source = Lookup(get_installed_plugins(pre.registry), op.name).source
                                    /\ Count(RecordNames(home.registry), local.plugin.name) = 1
                               /\ (UpdateInstall /\ pc = "done" /\ ~result.success) => home.registry = pre.registry
                               /\ (op.kind = "update") =>
                                    /\ pc = "done" /\ ~result.success /\ home = pre
                                    /\ op.name \notin Keys(get_installed_plugins(pre.registry))

\* C19 witness: the update of a plugin installed from a git source succeeded
\* and its record keeps the source string
C19_Witness == /\ UpdateInstall /\ pc = "done" /\ result.success
               /\ op.source \in RemoteSources
               /\ Lookup(get_installed_plugins(home.registry), op.name).source = op.source
               /\ tempDirs > 0

\* the component kinds the parsed plugin of the running install has
KindsPresent == {k \in {"skills", "agents", "commands", "hooks", "mcp"} :
                   \/ k = "skills" /\ has_skills(local.plugin)
                   \/ k = "agents" /\ has_agents(local.plugin)
                   \/ k = "commands" /\ has_commands(local.plugin)
                   \/ k = "hooks" /\ has_hooks(local.plugin)
                   \/ k = "mcp" /\ has_mcp(local.plugin)}

\* the install has returned success
InstallSucceeded == op.kind = "install" /\ pc = "done" /\ result.success

\* C20: a successful install returns installed_components with an entry for
\* exactly the kinds the parsed plugin has (skills, agents and commands as
\* the lists of their names, hooks and mcp as True), and warnings that are
\* the commands warning when there are commands followed by the hooks
\* warning when there are hooks, nothing else; the components of the
\* registry record are the same.
C20_ComponentsAndWarnings == InstallSucceeded =>
                               /\ Keys(result.installed_components) = KindsPresent
                               /\ \A i \in 1..Len(result.installed_components) : result.installed_components[i].flag = (result.installed_components[i].name \in {"hooks", "mcp"})
                               /\ has_skills(local.plugin) => GetList(result.installed_components, "skills") = local.plugin.skills
                               /\ has_agents(local.plugin) => GetList(result.installed_components, "agents") = [i \in 1..Len(local.plugin.agents) |-> local.plugin.agents[i].stem]
                               /\ has_commands(local.plugin) => GetList(result.installed_components, "commands") = local.plugin.commands
                               /\ result.warnings = (IF has_commands(local.plugin) THEN <<CommandsWarning>> ELSE <<>>) \o (IF has_hooks(local.plugin) THEN <<HooksWarning>> ELSE <<>>)
                               /\ Lookup(get_installed_plugins(home.registry), local.plugin.name).components = result.installed_components

\* C20 witness: an install of a plugin with all five kinds returned both
\* warnings and stored five component entries
C20_Witness == /\ InstallSucceeded /\ KindsPresent = {"skills", "agents", "commands", "hooks", "mcp"}
               /\ Len(result.warnings) = 2
               /\ Len(Lookup(get_installed_plugins(home.registry), local.plugin.name).components) = 5
               /\ GetList(result.installed_components, "agents") = <<"a1", "a2">>

\* a forced install over a record of the same name has returned success
ForcedReinstalled == pc = "done" /\ NameWasRegistered /\ op.force /\ result.success

\* the agent and command files that were in the home before the call are
\* still there, and what belongs to a skills kind the new version does not
\* have (the copy, the link, the search-path entry) is as it was
PriorArtifactsStay == /\ Keys(pre.agents[local.plugin.name].files) \subseteq Keys(home.agents[local.plugin.name].files)
                      /\ Keys(pre.plugins[local.plugin.name].commands.files) \subseteq Keys(home.plugins[local.plugin.name].commands.files)
                      /\ ~has_skills(local.plugin) =>
                           /\ home.plugins[local.plugin.name].skills = pre.plugins[local.plugin.name].skills
                           /\ home.skills[local.plugin.name] = pre.skills[local.plugin.name]
                           /\ home.settings.dirs = pre.settings.dirs
                      /\ ~has_hooks(local.plugin) => home.plugins[local.plugin.name].hooks = pre.plugins[local.plugin.name].hooks

\* the skills and the hooks subtree of the install directory hold what the
\* new version has and nothing else
SubtreesReplaced == /\ has_skills(local.plugin) => home.plugins[local.plugin.name].skills = [exists |-> TRUE, from |-> local.plugin.root, files |-> local.plugin.skills]
                    /\ has_hooks(local.plugin) => home.plugins[local.plugin.name].hooks = [exists |-> TRUE, from |-> local.plugin.root, files |-> local.plugin.hooks_scripts]

\* C21: a forced reinstall clears nothing first: the agent files, the command
\* files and the skills kind (copy, link, search-path entry) of the prior
\* version that the new version lacks are still in the home, while the new
\* registry record lists the components of the new version only; the skills
\* and hooks subtrees the new version has are replaced wholesale.
C21_ReinstallMergesAndOverwrites == ForcedReinstalled =>
                                      /\ PriorArtifactsStay
                                      /\ SubtreesReplaced
                                      /\ Keys(Lookup(get_installed_plugins(home.registry), local.plugin.name).components) = KindsPresent
                                      /\ GetList(Lookup(get_installed_plugins(home.registry), local.plugin.name).components, "agents") = [i \in 1..Len(local.plugin.agents) |-> local.plugin.agents[i].stem]
                                      /\ GetList(Lookup(get_installed_plugins(home.registry), local.plugin.name).components, "commands") = local.plugin.commands

\* C21 witness: the new version has neither skills nor commands and one agent
\* less: the agent file a2.md, the command c1, the skills link and the
\* search-path entry are orphaned, and the hooks scripts were replaced
C21_Witness == /\ ForcedReinstalled /\ ~has_skills(local.plugin) /\ ~has_commands(local.plugin)
               /\ "a2.md" \in Keys(home.agents[local.plugin.name].files)
               /\ "a2" \notin Range(GetList(Lookup(get_installed_plugins(home.registry), local.plugin.name).components, "agents"))
               /\ "c1" \in Keys(home.plugins[local.plugin.name].commands.files)
               /\ home.skills[local.plugin.name].kind = "symlink"
               /\ SkillsDir(install_path_of(local.plugin.name)) \in Range(home.settings.dirs)
               /\ "skills" \notin Keys(Lookup(get_installed_plugins(home.registry), local.plugin.name).components)
               /\ pre.plugins[local.plugin.name].hooks.files = <<"start.sh">>
               /\ home.plugins[local.plugin.name].hooks.files = <<"stop.sh">>

\* the messages of the failures that install_plugin returns before it creates
\* the install directory
EarlyFailures == {"Failed to resolve source", "Failed to parse plugin", "already installed"}

\* an install has returned one of the failures that precede the mkdir
FailedBeforeMkdir == pc = "done" /\ op.kind = "install" /\ ~result.success /\ ~result.raised /\ result.message \in EarlyFailures

\* C22: an install that fails before the install directory is created leaves
\* nothing behind: when it returns, the home is as it was when the call
\* started, the returning step has created no temporary directory, and no
\* earlier step of the call has cloned into one.
C22_EarlyFailureLeavesNothing == [][(pc \in {"resolve", "parse", "check"} /\ FailedBeforeMkdir') =>
                                      /\ home' = pre
                                      /\ tempDirs' = tempDirs
                                      /\ (op.source \in RemoteSources => pc = "resolve")]_vars

\* remove_plugin is running, or has returned, for a name the registry had a
\* record of when the call started
RemoveOfRegistered == op.kind = "remove" /\ op.name \in Keys(get_installed_plugins(pre.registry))

C23_WitnessAbsent == /\ RemoveOfRegistered /\ pc = "done" /\ result.success
                     /\ ~pre.settings.exists
                     /\ pre.skills[op.name] = NoLink

\* ParsedPlugin.has_hooks of a parse result: hooks_config is not None
parsed_has_hooks(parsed) == parsed.hooks_config # AbsentFile

\* a plugin directory whose hooks folder holds scripts and no hooks.json
ScriptsOnly(dir) == dir.hooks.exists /\ dir.hooks.hooks_json.state = "absent" /\ dir.hooks.scripts # <<>>

\* parse_plugin reports hooks exactly for the directories whose hooks.json
\* was loaded; a hooks folder with scripts only gives has_hooks false and the
\* list of its scripts
HooksParsedByConfig == \A dir \in PluginDirs : ~parse_plugin_tree(dir).raised =>
                         /\ parsed_has_hooks(parse_plugin_tree(dir)) <=> (dir.hooks.exists /\ dir.hooks.hooks_json.state = "valid")
                         /\ ScriptsOnly(dir) => (~parsed_has_hooks(parse_plugin_tree(dir)) /\ parse_plugin_tree(dir).hooks_scripts = dir.hooks.scripts)

\* C24: hooks are present exactly when hooks.json was loaded, not when the
\* hooks folder exists.  Parsing a directory whose hooks folder holds scripts
\* and no hooks.json gives has_hooks false with a non-empty script list; an
\* install of such a plugin leaves the hooks subtree of the install
\* directory as it was, puts no hooks entry in installed_components or in
\* the registry record and gives no hooks warning, while an install of a
\* plugin whose hooks.json was loaded does all of these.
C24_HooksByConfig == /\ HooksParsedByConfig
                     /\ (op.kind = "install" /\ local.plugin.manifest /\ ~local.plugin.hooks_config) =>
                          /\ home.plugins[local.plugin.name].hooks = pre.plugins[local.plugin.name].hooks
                          /\ "hooks" \notin Keys(local.installed_components)
                          /\ HooksWarning \notin Range(local.warnings)
                          /\ (pc = "done" /\ result.success) =>
                               /\ "hooks" \notin Keys(result.installed_components)
                               /\ HooksWarning \notin Range(result.warnings)
                               /\ "hooks" \notin Keys(Lookup(get_installed_plugins(home.registry), local.plugin.name).components)
                     /\ (op.kind = "install" /\ pc \in {"mcp", "settings", "register"} /\ local.plugin.hooks_config) =>
                          /\ home.plugins[local.plugin.name].hooks.files = local.plugin.hooks_scripts
                          /\ "hooks" \in Keys(local.installed_components)
                          /\ HooksWarning \in Range(local.warnings)

\* C24 witness: a plugin with a script in its hooks folder and no hooks.json
\* was installed: no hooks subtree, no hooks entry, no warning about hooks
C24_Witness == /\ InstallSucceeded /\ ~local.plugin.hooks_config /\ local.plugin.hooks_scripts # <<>>
               /\ home.plugins[local.plugin.name].exists
               /\ ~home.plugins[local.plugin.name].hooks.exists
               /\ "hooks" \notin Keys(result.installed_components)
               /\ result.warnings = <<CommandsWarning>>

\* what C25 says of one registry record
RecordConsistent(info) == /\ info.install_path = install_path_of(info.name)
                          /\ home.plugins[info.name].exists
                          /\ "skills" \in Keys(info.components) =>
                               /\ home.skills[info.name] = [kind |-> "symlink", target |-> SkillsDir(install_path_of(info.name))]
                               /\ home.plugins[info.name].skills.exists
                               /\ home.settings.exists
                               /\ SkillsDir(install_path_of(info.name)) \in Range(home.settings.dirs)
                          /\ "agents" \in Keys(info.components) =>
                               /\ home.agents[info.name].exists
                               /\ \A stem \in Range(GetList(info.components, "agents")) : (stem \o ".md") \in Keys(home.agents[info.name].files)

\* C25: between calls, every registry record of a name n has the install
\* path plugins/n and that directory exists; when the record lists skills,
\* skills/n is a link to plugins/n/skills and that path is in the
\* config.skills.dirs list of settings.yaml; when it lists agents, agents/n
\* exists and holds a file <agent>.md for every listed agent.  (It holds
\* after failed and raised calls too.)
C25_RecordsConsistent == Idle => \A i \in 1..Len(get_installed_plugins(home.registry)) : RecordConsistent(get_installed_plugins(home.registry)[i])

\* C25 witness: after a forced reinstall two plugins are registered, both
\* records list skills and one lists agents, and the search path holds the
\* user's directory and theirs
C25_Witness == /\ pc = "done" /\ op.kind = "install" /\ op.force /\ result.success
               /\ Len(get_installed_plugins(home.registry)) = 2
               /\ \A i \in 1..2 : "skills" \in Keys(get_installed_plugins(home.registry)[i].components)
               /\ \E i \in 1..2 : Len(GetList(get_installed_plugins(home.registry)[i].components, "agents")) = 2
               /\ Len(home.settings.dirs) = 3

\* the name the running call works on: the manifest name for an install that
\* has parsed its source, the argument for a remove
OperatedNames == IF op.kind = "remove" THEN {op.name} ELSE IF op.kind = "install" /\ local.plugin.manifest THEN {local.plugin.name} ELSE {}

\* what belongs to plugin n in home h: its registry record, its install
\* directory, its skills link, its agents directory and whether its skills
\* directory is in the search-path list
Belongings(h, n) == [record |-> SelectSeq(get_installed_plugins(h.registry), LAMBDA info : info.name = n), dir |-> h.plugins[n], link |-> h.skills[n], agents |-> h.agents[n], listed |-> Count(h.settings.dirs, SkillsDir(install_path_of(n)))]

\* C26: at every step of an install or a remove, and when it has returned a
\* success, a failure or raised, what belongs to every plugin of another
\* name (registry record, install directory, skills link, agents directory,
\* search-path entry) is as it was when the call started.
C26_OtherPluginsUntouched == op.kind \in {"install", "remove"} => \A n \in Names \ OperatedNames : Belongings(home, n) = Belongings(pre, n)

\* C26 witness: a plugin was removed while another one, with a record, an
\* install directory, a skills link and a search-path entry, stayed as it was
C26_Witness == /\ pc = "done" /\ op.kind = "remove" /\ result.success
               /\ home # pre
               /\ \E n \in Names \ {op.name} : /\ Len(Belongings(home, n).record) = 1
                                              /\ Belongings(home, n).dir.exists
                                              /\ Belongings(home, n).link.kind = "symlink"
                                              /\ Belongings(home, n).listed = 1
                                              /\ Belongings(pre, op.name).listed = 1

====
